---- MODULE Spec2Model ----
(***************************************************************************)
(* Agent control loop of chrome-gemini-cli: Orchestrator (executeTask,     *)
(* continueConversation, executeFunctionCalls, formatToolResult, connect,   *)
(* cleanup), GeminiClient (startAgent, addUserMessage, continueAgent,       *)
(* callGeminiWithTimeout, reset) and MCPClient (callTool, connect, close).  *)
(*                                                                         *)
(* JavaScript values are records [t |-> type, v |-> text]; strings are TLA+ *)
(* strings, concatenated with \o as the template literals of the code do.   *)
(* Every await of the code is a control position (pc); the code between two *)
(* awaits is one action.                                                    *)
(*                                                                         *)
(* Spec follows one task at a time; SpecScenario and SpecNavigate do so for *)
(* scripted replies; SpecRace follows the timers and requests that lost a   *)
(* race of callGeminiWithTimeout; SpecSession follows two tasks started by  *)
(* the line handler of the interactive session; SpecMixed follows replies   *)
(* that hold provide_answer among other requests; SpecLive follows every    *)
(* task to its end under fairness; SpecClose follows a cleanup that runs    *)
(* into a task; SpecConfig applies resolveConfig to the configurations of   *)
(* the four sources; SpecMain follows main from the command line on;       *)
(* SpecTools follows every kind of raw result of the automation backend.   *)
(***************************************************************************)
EXTENDS Integers, Sequences, FiniteSets, TLC

VARIABLES
  isConnected,          \* Orchestrator.isConnected
  connected,            \* MCPClient.connected
  maxSteps,             \* Orchestrator.maxSteps (the ceiling)
  responseSchema,       \* GeminiClient.responseSchema is set
  currentQuery,         \* Orchestrator.currentQuery
  conversationHistory,  \* GeminiClient.conversationHistory
  pc,                   \* position of the running task ("idle": none)
  entry,                \* entry point of the running / last task
  agentResponse,        \* local agentResponse of the task
  steps,                \* local steps of the task
  callIndex,            \* index of the functionCall being executed
  results,              \* local results of executeFunctionCalls
  toolCall,             \* name and arguments handed to MCPClient.callTool
  toolResults,          \* toolResults argument of the last continueAgent call
  request,              \* contents of the last language-backend request
  answerText,           \* local answerText of continueAgent
  outcome,              \* how the last task ended (returned value / thrown error)
  backend,              \* what the automation backend did for each call of the step
  iterations,           \* number of loop bodies entered by the task
  race,                 \* the race of callGeminiWithTimeout the task awaited last
  structuredResponse,   \* body of the reply to the reformat sub-request of the task
  losers,               \* the participants of settled races that are still to complete
  other,                \* the locals of a second task running on the same Orchestrator
  cli                   \* the process: its arguments, its configuration sources, main

vars == <<isConnected, connected, maxSteps, responseSchema, currentQuery,
          conversationHistory, pc, entry, agentResponse, steps, callIndex,
          results, toolCall, toolResults, request, answerText, outcome,
          backend, iterations, race, structuredResponse, losers, other, cli>>

(***************************************************************************)
(* Bounds of the model.                                                    *)
(***************************************************************************)
CloseCeiling == 1      \* ceilings 1..CloseCeiling of the tasks a cleanup runs into
MaxArgs == 2           \* command lines of at most MaxArgs arguments
LiveCeiling == 2       \* ceilings 1..LiveCeiling of the tasks followed to their end
MaxCeiling == 2        \* ceilings 1..MaxCeiling
MaxHistory == 3        \* continueConversation starts on fewer turns than this
MixedCeiling == 1      \* ceilings 1..MixedCeiling of the tasks with mixed replies
NavigateCeiling == 1   \* ceilings 1..NavigateCeiling of the navigation scenario
ToolsCeiling == 1      \* ceilings 1..ToolsCeiling of the tool-result scenario
ScenarioCeiling == 3   \* ceilings 1..ScenarioCeiling of the end-to-end scenario

(***************************************************************************)
(* JavaScript values.                                                      *)
(***************************************************************************)
Str(s) == [t |-> "string", v |-> s]
Undefined == [t |-> "undefined", v |-> ""]
Null == [t |-> "null", v |-> ""]
Num(s) == [t |-> "number", v |-> s]
Obj(s) == [t |-> "object", v |-> s]
Bool(b) == [t |-> "boolean", v |-> IF b THEN "true" ELSE "false"]

\* JavaScript truthiness, as used by `a && b`, `a || b` and `if (a)`.
Truthy(x) ==
  CASE x.t = "string" -> x.v # ""
    [] x.t = "undefined" -> FALSE
    [] x.t = "null" -> FALSE
    [] x.t = "number" -> x.v \notin {"0", "NaN"}
    [] x.t = "boolean" -> x.v = "true"
    [] OTHER -> TRUE

\* String(x)
JsString(x) ==
  CASE x.t = "string" -> x.v
    [] x.t = "undefined" -> "undefined"
    [] x.t = "null" -> "null"
    [] x.t = "object" -> "[object Object]"
    [] OTHER -> x.v

IsString(x) == x.t = "string"

(***************************************************************************)
(* Text helpers.                                                           *)
(***************************************************************************)
RECURSIVE Join(_, _)
Join(seq, sep) ==
  IF Len(seq) = 0 THEN ""
  ELSE IF Len(seq) = 1 THEN seq[1]
  ELSE seq[1] \o sep \o Join(Tail(seq), sep)

IsWhitespace(tok) == tok \in {" ", "\t", "\n"}

\* A replacement of every whitespace character, not of every run.
RECURSIVE ReplaceWhitespace_PerCharacter(_, _)
ReplaceWhitespace_PerCharacter(toks, inRun) ==
  IF Len(toks) = 0 THEN ""
  ELSE (IF IsWhitespace(Head(toks)) THEN "+" ELSE Head(toks))
         \o ReplaceWhitespace_PerCharacter(Tail(toks), FALSE)

\* query.replace(/\s+/g, '+') on a query given as a sequence of tokens, each a
\* word or a single whitespace character.
RECURSIVE ReplaceWhitespace(_, _)
ReplaceWhitespace(toks, inRun) ==
  IF Len(toks) = 0 THEN ""
  ELSE IF IsWhitespace(Head(toks))
       THEN (IF inRun THEN "" ELSE "+") \o ReplaceWhitespace(Tail(toks), TRUE)
       ELSE Head(toks) \o ReplaceWhitespace(Tail(toks), FALSE)

QueryText(q) == Join(q, "")

\* The queries a caller submits to executeTask, and the messages it submits to
\* continueConversation.
Queries == { <<"find", " ", "X">> }
Messages == { <<"best", " ", " ", "pizza">> }

(***************************************************************************)
(* Replies of the language backend to a function-calling request.          *)
(***************************************************************************)
NoArgs == [url |-> Undefined, answer |-> Undefined]
FC(name, args) == [kind |-> "functionCall", text |-> Undefined,
                   call |-> [name |-> name, args |-> args]]
NoCall == [name |-> Undefined, args |-> NoArgs]
TextPart(s) == [kind |-> "text", text |-> Str(s), call |-> NoCall]

Navigate(u) == FC(Str("navigate_page"), [NoArgs EXCEPT !.url = Str(u)])
Click == FC(Str("click"), NoArgs)
ProvideAnswer(a) == FC(Str("provide_answer"), [NoArgs EXCEPT !.answer = a])

Reply(parts) == [candidate |-> TRUE, parts |-> parts]
NoCandidate == [candidate |-> FALSE, parts |-> <<>>]

InvokeReplies ==
  { Reply(<<TextPart("I will search"), FC(Undefined, NoArgs),
            Navigate("GOOGLE.com"), ProvideAnswer(Str(""))>>),
    Reply(<<ProvideAnswer(Undefined)>>) }

AnswerReplies ==
  { Reply(<<ProvideAnswer(Str("Price is $10"))>>),
    Reply(<<Click, ProvideAnswer(Str("Price is $10"))>>) }

Replies == InvokeReplies \cup AnswerReplies
             \cup { Reply(<<TextPart("I cannot")>>), NoCandidate }

(***************************************************************************)
(* Automation backend: what client.callTool resolves to, or throws.        *)
(***************************************************************************)
\* A content item: its type, its text and its data (base64), "" for a property
\* the item does not have.
Item(type, text) == [type |-> type, text |-> text, data |-> ""]
Media(type, data) == [type |-> type, text |-> "", data |-> data]

\* A raw result: a JavaScript value (v is its JSON text when it is an object
\* without a content list), its content list and its isError property.
RawContent(items) ==
  [t |-> "object", v |-> "", hasContent |-> TRUE, content |-> items, isError |-> FALSE]
RawString(s) ==
  [t |-> "string", v |-> s, hasContent |-> FALSE, content |-> <<>>, isError |-> FALSE]
\* A tool failure reported in the result: { content: [...], isError: true }.
RawError(items) == [RawContent(items) EXCEPT !.isError = TRUE]
\* An object without a content list, and a value that is no object and no string.
RawObject(json) == [RawString(json) EXCEPT !.t = "object"]
RawValue(x) == [RawString(x.v) EXCEPT !.t = x.t]

RawResults == { RawContent(<<Item("text", "Page loaded"), Media("image", "iVBORw0")>>) }
ToolErrors == { "Timed out waiting for selector" }

\* Bodies of the reformat sub-request (structuredResponse.text).
ReformatBodies == { Str("{\"price\":10}"), Str("0"), Str("Price is $10"), Undefined }

(***************************************************************************)
(* Messages.                                                               *)
(***************************************************************************)
MaxStepsMessage == "Maximum steps reached. Task incomplete."
NotConnectedMessage == "Orchestrator not connected. Call connect() first."
McpNotConnectedMessage == "MCP client is not connected. Call connect() first."
ToolNameMessage == "Tool name is not a string"
NoResponseMessage == "No response from Gemini"
UnexpectedResponseMessage ==
  "Unexpected response: Model did not call any function despite ANY mode being enabled."
TimeoutMessage == "Gemini API call timed out after 60000ms"
SyntaxErrorMessage == "Unexpected token in JSON"


(***************************************************************************)
(* GeminiClient: conversation turns.                                       *)
(***************************************************************************)
SystemPrompt == "You are a web browsing agent with full browser control."
DecideInstruction ==
  "\n\nDecide your next action: If you have enough information to answer - call provide_answer with what you found. If you need more details - click a link or call another tool. If error - try a different approach. Make a decision and act NOW."

UserTurn(text) == [role |-> "user", parts |-> <<TextPart(text)>>]
ModelTurn(parts) == [role |-> "model", parts |-> parts]

\* startAgent: the single opening turn of a new task.
StartTurn(userQuery) ==
  UserTurn(SystemPrompt \o "\n\nUser: \"" \o QueryText(userQuery) \o "\"")

\* startAgent that pushes its turn onto the history it finds.
startAgent_KeepsHistory(history, userQuery) == Append(history, StartTurn(userQuery))

\* startAgent: the history is emptied, then the opening turn is pushed.
startAgent(history, userQuery) == <<StartTurn(userQuery)>>

\* addUserMessage: the turn holding the new message.
MessageTurn(message) == UserTurn(QueryText(message))

\* continueAgent: the synthetic user turn holding the tool results.
ResultsText(trs) ==
  Join([i \in 1..Len(trs) |->
          "Tool: " \o trs[i].toolName \o "\nResult: " \o trs[i].result], "\n\n")
ToolResultsTurn(trs) ==
  UserTurn("Tool Results:\n" \o ResultsText(trs) \o DecideInstruction)

(***************************************************************************)
(* GeminiClient.continueAgent: classification of a reply.                  *)
(***************************************************************************)
IsFunctionCallPart(part) == part.kind = "functionCall"

\* functionCallParts.map(part => part.functionCall)
FunctionCallsOf(parts) ==
  LET fcp == SelectSeq(parts, IsFunctionCallPart)
  IN [i \in 1..Len(fcp) |-> fcp[i].call]

\* functionCalls.find(call => call.name === 'provide_answer'): index of the first
\* provide_answer call, 0 when there is none.
FindProvideAnswer(calls) ==
  LET hits == {i \in 1..Len(calls) : calls[i].name = Str("provide_answer")}
  IN IF hits = {} THEN 0 ELSE CHOOSE i \in hits : \A j \in hits : i <= j

\* The finish test without the test of the answer argument.
IsFinish_AnyProvideAnswer(calls) ==
  \E i \in 1..Len(calls) : calls[i].name = Str("provide_answer")

\* provideAnswerCall && provideAnswerCall.args?.answer
IsFinish(calls) ==
  /\ FindProvideAnswer(calls) # 0
  /\ Truthy(calls[FindProvideAnswer(calls)].args.answer)

\* candidate.content?.parts?.find(part => part.text)?.text
ThinkingOf(parts) ==
  LET hits == {i \in 1..Len(parts) : Truthy(parts[i].text)}
  IN IF hits = {} THEN Undefined
     ELSE parts[CHOOSE i \in hits : \A j \in hits : i <= j].text

NoResponse == [type |-> "none", answer |-> Undefined, functionCalls |-> <<>>,
               thinking |-> Undefined]
AnswerResponse(a) == [type |-> "answer", answer |-> a, functionCalls |-> <<>>,
                      thinking |-> Undefined]
FunctionCallResponse(calls, thinking) ==
  [type |-> "function_call", answer |-> Undefined, functionCalls |-> calls,
   thinking |-> thinking]

\* JSON.parse(structuredResponse.text ?? '{}'): the parsed value, or Undefined
\* with ok = FALSE when JSON.parse throws a SyntaxError.
JsonParse(text) ==
  LET body == IF text.t \in {"undefined", "null"} THEN "{}" ELSE text.v
  IN CASE body = "{}" -> [ok |-> TRUE, value |-> Obj("{}")]
       [] body = "{\"price\":10}" -> [ok |-> TRUE, value |-> Obj(body)]
       [] body = "0" -> [ok |-> TRUE, value |-> Num("0")]
       [] body = "null" -> [ok |-> TRUE, value |-> Null]
       [] OTHER -> [ok |-> FALSE, value |-> Undefined]

(***************************************************************************)
(* Orchestrator: the loop condition, the final result, the tool results.   *)
(***************************************************************************)
\* The loop test with <= for <: one loop body too many.
LoopContinues_OffByOne(resp, s, ceiling) ==
  resp.type = "function_call" /\ s <= ceiling

\* while (agentResponse.type === 'function_call' && steps < this.maxSteps)
LoopContinues(resp, s, ceiling) == resp.type = "function_call" /\ s < ceiling

\* A final result without the fixed string: whatever the answer field holds.
FinalResult_NoSentinel(resp) == resp.answer

\* if (agentResponse.type === 'answer' && agentResponse.answer) return it,
\* else the fixed string.
FinalResult(resp) ==
  IF resp.type = "answer" /\ Truthy(resp.answer)
  THEN resp.answer
  ELSE Str(MaxStepsMessage)

\* formatToolResult
\* JSON.stringify(item)
StringifyItem(item) ==
  "{\"type\":\"" \o item.type \o "\""
    \o (IF item.text # "" THEN ",\"text\":\"" \o item.text \o "\"" ELSE "")
    \o (IF item.data # "" THEN ",\"data\":\"" \o item.data \o "\"" ELSE "")
    \o "}"

FormatItem(item) ==
  IF item.type = "text" THEN item.text
  ELSE IF item.type = "image" THEN "[Image content not shown to agent]"
  ELSE StringifyItem(item)

formatToolResult(result) ==
  IF result.t = "string" THEN result.v
  ELSE IF result.t = "object"
       THEN IF result.hasContent
            THEN Join([i \in 1..Len(result.content) |-> FormatItem(result.content[i])], "\n")
            ELSE result.v
       ELSE JsString(result)

\* results.push({ result: String(resultString), toolName: String(toolName) })
SuccessResult(call, raw) ==
  [result |-> formatToolResult(raw), toolName |-> JsString(call.name)]

\* The error message pushed without the 'Error: ' prefix.
ErrorResult_NoPrefix(call, message) ==
  [result |-> message, toolName |-> JsString(call.name)]

\* catch: results.push({ result: `Error: ${error.message}`, toolName: String(toolName) })
ErrorResult(call, message) ==
  [result |-> "Error: " \o message, toolName |-> JsString(call.name)]

\* A catch block that logs the error and pushes nothing.
Caught_Dropped(res, call, message) == res

\* The catch block of executeFunctionCalls: the error becomes the result of the
\* call.
Caught(res, call, message) == Append(res, ErrorResult(call, message))

\* The end of the try block: the formatted result is pushed.
Completed(res, call, raw) == Append(res, SuccessResult(call, raw))

\* url.toLowerCase() on the URLs of the model
ToLowerCase(u) ==
  CASE u = "GOOGLE.com" -> "google.com"
    [] u = "HTTPS://WWW.Google.COM" -> "https://www.google.com"
    [] OTHER -> u

\* url.includes('?') on the URLs of the model
IncludesQuestionMark(u) ==
  u \in {"https://www.google.com/search?q=cats", "https://www.google.com?hl=en",
         "https://example.com/?q=a b"}

BareGoogleUrls ==
  {"https://www.google.com", "https://google.com", "http://www.google.com",
   "http://google.com", "www.google.com", "google.com"}

\* An interception that looks at the url argument of every tool.
FixArgs_AnyTool(call, query) ==
  IF /\ Truthy(call.args.url)
     /\ ToLowerCase(JsString(call.args.url)) \in BareGoogleUrls
  THEN [call.args EXCEPT
          !.url = Str("https://www.google.com/search?q=" \o ReplaceWhitespace(query, FALSE))]
  ELSE call.args

\* The navigate_page interception: the arguments after the fix-up.
FixArgs(call, query) ==
  IF /\ call.name = Str("navigate_page")
     /\ Truthy(call.args.url)
     /\ ToLowerCase(JsString(call.args.url)) \in BareGoogleUrls
     /\ ~IncludesQuestionMark(ToLowerCase(JsString(call.args.url)))
  THEN [call.args EXCEPT
          !.url = Str("https://www.google.com/search?q=" \o ReplaceWhitespace(query, FALSE))]
  ELSE call.args


(***************************************************************************)
(* Configuration (config.ts). A configuration is the values of its seven    *)
(* fields, Undefined for a field the source leaves out, and its presets:    *)
(* Undefined when it has no presets object, else the fields of each preset  *)
(* by name, Undefined for a name it does not hold.                          *)
(***************************************************************************)
ConfigFields ==
  {"interactive", "maxSteps", "model", "requestDelayMs", "schema", "temperature",
   "thinkingBudget"}
PresetNames == {"quick", "slow"}

NoFields == [f \in ConfigFields |-> Undefined]
NoPresets == [n \in PresetNames |-> Undefined]
Config(fields, presets) == [fields |-> fields, presets |-> presets]
EmptyConfig == Config(NoFields, Undefined)

\* A merge in which the later configuration overrides with what it leaves
\* undefined too.
MergeInto_UndefinedOverrides(merged, config) ==
  IF config = Null THEN merged
  ELSE Config(config.fields,
              IF config.presets # Undefined
              THEN LET held == IF merged.presets = Undefined THEN NoPresets
                               ELSE merged.presets
                   IN [n \in PresetNames |->
                         IF config.presets[n] # Undefined THEN config.presets[n]
                         ELSE held[n]]
              ELSE merged.presets)

\* One round of the loop of mergeConfigs: a null configuration is skipped; each
\* field that is !== undefined is copied; the presets are spread over the
\* presets merged so far.
MergeInto(merged, config) ==
  IF config = Null THEN merged
  ELSE Config([f \in ConfigFields |->
                 IF config.fields[f] # Undefined THEN config.fields[f]
                 ELSE merged.fields[f]],
              IF config.presets # Undefined
              THEN LET held == IF merged.presets = Undefined THEN NoPresets
                               ELSE merged.presets
                   IN [n \in PresetNames |->
                         IF config.presets[n] # Undefined THEN config.presets[n]
                         ELSE held[n]]
              ELSE merged.presets)

\* mergeConfigs(...configs)
RECURSIVE MergeFrom(_, _)
MergeFrom(merged, configs) ==
  IF Len(configs) = 0 THEN merged
  ELSE MergeFrom(MergeInto(merged, Head(configs)), Tail(configs))
mergeConfigs(configs) == MergeFrom(EmptyConfig, configs)

\* applyPreset: the configuration merged with the named preset, or the error
\* thrown when there is no such preset (the message goes on with the names of
\* the presets there are).
PresetNotFound(presetName) == "Preset \"" \o presetName \o "\" not found."
applyPreset(config, presetName) ==
  IF config.presets = Undefined \/ presetName \notin PresetNames
  THEN [ok |-> FALSE, config |-> config, message |-> PresetNotFound(presetName)]
  ELSE IF config.presets[presetName] = Undefined
  THEN [ok |-> FALSE, config |-> config, message |-> PresetNotFound(presetName)]
  ELSE [ok |-> TRUE, message |-> "",
        config |-> mergeConfigs(<<config, Config(config.presets[presetName], Undefined)>>)]

\* resolveConfig({ cliConfig, presetName }) on the default and the project
\* configuration it loads: default < project < preset < CLI.
resolveConfig(defaultConfig, projectConfig, cliConfig, presetName) ==
  LET merged == mergeConfigs(<<defaultConfig, projectConfig>>)
      preset == IF Truthy(presetName) THEN applyPreset(merged, presetName.v)
                ELSE [ok |-> TRUE, config |-> merged, message |-> ""]
  IN IF ~preset.ok
     THEN [ok |-> FALSE, fields |-> NoFields,
           message |-> "Preset error: " \o preset.message]
     ELSE [ok |-> TRUE, message |-> "",
           fields |-> mergeConfigs(<<preset.config, cliConfig>>).fields]

(***************************************************************************)
(* The task as a record of the state it reads and writes, so that the code *)
(* run between two awaits is a function from task state to task state.     *)
(***************************************************************************)
Task ==
  [pc |-> pc, agentResponse |-> agentResponse, steps |-> steps,
   callIndex |-> callIndex, results |-> results, toolCall |-> toolCall,
   toolResults |-> toolResults, answerText |-> answerText, outcome |-> outcome,
   iterations |-> iterations, request |-> request, backend |-> backend,
   race |-> race, structuredResponse |-> structuredResponse,
   history |-> conversationHistory]

\* What the automation backend did for one call of the step.
NotCalled == [kind |-> "notCalled", raw |-> RawString(""), message |-> ""]
Resolved(raw) == [kind |-> "resolved", raw |-> raw, message |-> ""]
Rejected(message) == [kind |-> "rejected", raw |-> RawString(""), message |-> message]

NoToolCall == [name |-> "", args |-> NoArgs]
NoOutcome == [kind |-> "none", value |-> Undefined]
\* No reformat sub-request has replied in the task.
NoBody == [t |-> "none", v |-> ""]

\* The race of callGeminiWithTimeout between a request and its timer: not begun,
\* pending, or settled by the reply (kept as it was received) or by the timer.
NoRace == [by |-> "none", reply |-> NoCandidate]
Pending == [by |-> "pending", reply |-> NoCandidate]
WonByReply(reply) == [by |-> "reply", reply |-> reply]
WonByTimer == [by |-> "timer", reply |-> NoCandidate]
Running == [kind |-> "running", value |-> Undefined]
Returned(value) == [kind |-> "return", value |-> value]
Thrown(message) == [kind |-> "throw", value |-> Str(message)]

\* The task is over: its locals go out of scope, the caller gets the outcome.
\* (agentResponse, steps and iterations are kept as the record of the task.)
Finish(st, out) ==
  [st EXCEPT !.pc = "idle", !.outcome = out, !.callIndex = 0, !.results = <<>>,
             !.toolCall = NoToolCall, !.toolResults = <<>>, !.answerText = "",
             !.request = <<>>, !.backend = <<>>]

\* An error that is swallowed: continueAgent goes back to its request.
Throw_Retries(st, message) == [st EXCEPT !.pc = "delay"]

\* An error leaves continueAgent (its catch rethrows) and executeTask /
\* continueConversation, which have no handler: the task ends with the error.
Throw(st, message) == Finish(st, Thrown(message))

\* continueAgent that forgets to append the tool results to the history.
ContinueAgent_NoResults(st, trs) ==
  [st EXCEPT !.toolResults = trs, !.toolCall = NoToolCall, !.pc = "delay"]

\* continueAgent up to its first await: the tool results, when there are any,
\* become a user turn; then sleep(requestDelayMs).
ContinueAgent(st, trs) ==
  [st EXCEPT !.history = IF Len(trs) > 0 THEN Append(@, ToolResultsTurn(trs)) ELSE @,
             !.toolResults = trs,
             !.toolCall = NoToolCall,
             !.pc = "delay"]

\* args.url = ... writes into the functionCall object that the model turn of the
\* history holds too (functionCalls are the parts' own objects).
RewriteParts(parts, k, args) ==
  LET idx == {i \in 1..Len(parts) :
                /\ IsFunctionCallPart(parts[i])
                /\ Len(SelectSeq(SubSeq(parts, 1, i), IsFunctionCallPart)) = k}
  IN [i \in 1..Len(parts) |->
        IF i \in idx THEN [parts[i] EXCEPT !.call.args = args] ELSE parts[i]]

SetArgs(st, k, args) ==
  LET h == st.history
      aliased == /\ Len(h) > 0
                 /\ h[Len(h)].role = "model"
                 /\ FunctionCallsOf(h[Len(h)].parts) = st.agentResponse.functionCalls
  IN [st EXCEPT
        !.agentResponse.functionCalls[k].args = args,
        !.history = IF aliased
                    THEN [h EXCEPT ![Len(h)].parts = RewriteParts(@, k, args)]
                    ELSE h]

\* executeFunctionCalls from functionCall k on, up to the next await: a call whose
\* name is not a string, or that MCPClient.ensureConnected rejects, is caught and
\* becomes an error result; otherwise client.callTool is awaited. After the last
\* call the results go to continueAgent.
RECURSIVE ExecuteFunctionCalls(_, _, _)
ExecuteFunctionCalls(st, k, mcpConnected) ==
  LET calls == st.agentResponse.functionCalls IN
  IF k > Len(calls) THEN ContinueAgent([st EXCEPT !.callIndex = 0], st.results)
  ELSE IF ~IsString(calls[k].name)
  THEN ExecuteFunctionCalls(
         [st EXCEPT !.results = Caught(@, calls[k], ToolNameMessage),
                    !.backend = Append(@, NotCalled)],
         k + 1, mcpConnected)
  ELSE LET args == FixArgs(calls[k], currentQuery)
           fixed == SetArgs(st, k, args)
       IN IF ~mcpConnected
          THEN ExecuteFunctionCalls(
                 [fixed EXCEPT
                    !.results = Caught(@, calls[k], McpNotConnectedMessage),
                    !.backend = Append(@, NotCalled)],
                 k + 1, mcpConnected)
          ELSE [fixed EXCEPT !.pc = "tool_wait", !.callIndex = k,
                             !.toolCall = [name |-> calls[k].name.v, args |-> args]]

\* The orchestrator once continueAgent (startAgent, addUserMessage) has returned
\* resp: the loop test, then either the next loop body or the final result.
AgenticLoop(st, resp) ==
  LET got == [st EXCEPT !.agentResponse = resp] IN
  IF LoopContinues(resp, st.steps, maxSteps)
  THEN ExecuteFunctionCalls(
         [got EXCEPT !.steps = @ + 1, !.iterations = @ + 1, !.results = <<>>,
                     !.backend = <<>>],
         1, connected)
  ELSE Finish(got, Returned(FinalResult(resp)))

\* continueAgent that takes the text of a reply for the answer.
OnReply_TextIsAnswer(st0, reply) ==
  AgenticLoop([st0 EXCEPT !.race = WonByReply(reply),
                          !.history = Append(@, ModelTurn(reply.parts))],
              AnswerResponse(ThinkingOf(reply.parts)))

\* continueAgent once the function-calling request has replied.
OnReply(st0, reply) ==
  LET st == [st0 EXCEPT !.race = WonByReply(reply)] IN
  IF ~reply.candidate THEN Throw(st, NoResponseMessage)
  ELSE LET pushed == [st EXCEPT !.history = Append(@, ModelTurn(reply.parts))]
           calls == FunctionCallsOf(reply.parts)
       IN IF Len(calls) > 0
          THEN IF IsFinish(calls)
               THEN LET text == JsString(calls[FindProvideAnswer(calls)].args.answer)
                    IN IF responseSchema
                       THEN [pushed EXCEPT !.pc = "reformat_delay", !.answerText = text]
                       ELSE AgenticLoop([pushed EXCEPT !.answerText = text],
                                        AnswerResponse(Str(text)))
               ELSE AgenticLoop(pushed,
                                FunctionCallResponse(calls, ThinkingOf(reply.parts)))
          ELSE Throw(pushed, UnexpectedResponseMessage)

\* continueAgent that answers with the free text whatever the sub-request said.
OnReformatReply_RawText(st, body) ==
  AgenticLoop([st EXCEPT !.structuredResponse = body],
              AnswerResponse(Str(st.answerText)))

\* continueAgent that falls back to the free text when the body does not parse.
OnReformatReply_FallsBack(st, body) ==
  LET parsed == JsonParse(body)
      got == [st EXCEPT !.structuredResponse = body]
  IN AgenticLoop(got, AnswerResponse(IF parsed.ok THEN parsed.value
                                     ELSE Str(st.answerText)))

\* continueAgent once the reformat sub-request has replied.
OnReformatReply(st, body) ==
  LET parsed == JsonParse(body)
      got == [st EXCEPT !.structuredResponse = body, !.race.by = "reply"]
  IN IF parsed.ok THEN AgenticLoop(got, AnswerResponse(parsed.value))
     ELSE Throw(got, SyntaxErrorMessage)

\* A race that never settles: whatever completes last resumes continueAgent.
callGeminiWithTimeout_LastWins(settled, st, completion) == completion

\* Promise.race([apiCall(), timer]): the participant that completes first settles
\* the race and resumes continueAgent with its completion; the completion of a
\* participant of a race that is settled already is dropped.
callGeminiWithTimeout(settled, st, completion) ==
  IF settled THEN st ELSE completion

\* continueAgent once the timer of the race has rejected: the error of the timer
\* is thrown at the await.
OnTimeout(st) == Throw([st EXCEPT !.race = WonByTimer], TimeoutMessage)

\* executeFunctionCalls once client.callTool has resolved / rejected.
OnToolResult(st, raw) ==
  LET call == st.agentResponse.functionCalls[st.callIndex] IN
  ExecuteFunctionCalls([st EXCEPT !.results = Completed(@, call, raw),
                                  !.backend = Append(@, Resolved(raw))],
                       st.callIndex + 1, connected)

\* A failure that ends the step: the requests after the failed one are skipped.
OnToolError_SkipsRest(st, message) ==
  LET call == st.agentResponse.functionCalls[st.callIndex] IN
  ContinueAgent([st EXCEPT !.results = Caught(@, call, message),
                           !.backend = Append(@, Rejected(message)),
                           !.callIndex = 0],
                Caught(st.results, call, message))

OnToolError(st, message) ==
  LET call == st.agentResponse.functionCalls[st.callIndex] IN
  ExecuteFunctionCalls([st EXCEPT !.results = Caught(@, call, message),
                                  !.backend = Append(@, Rejected(message))],
                       st.callIndex + 1, connected)

Apply(st) ==
  /\ pc' = st.pc
  /\ agentResponse' = st.agentResponse
  /\ steps' = st.steps
  /\ callIndex' = st.callIndex
  /\ results' = st.results
  /\ toolCall' = st.toolCall
  /\ toolResults' = st.toolResults
  /\ answerText' = st.answerText
  /\ outcome' = st.outcome
  /\ iterations' = st.iterations
  /\ request' = st.request
  /\ backend' = st.backend
  /\ race' = st.race
  /\ structuredResponse' = st.structuredResponse
  /\ conversationHistory' = st.history

\* The locals of a task that begins.
Begin(st, hist) ==
  [st EXCEPT !.pc = "delay", !.agentResponse = NoResponse, !.steps = 0,
             !.callIndex = 0, !.results = <<>>, !.toolCall = NoToolCall,
             !.toolResults = <<>>, !.answerText = "", !.outcome = Running,
             !.iterations = 0, !.request = <<>>, !.backend = <<>>,
             !.race = NoRace, !.structuredResponse = NoBody,
             !.history = hist]

\* The participants of a race that can be left over when it settles: the timer
\* (the reply won), the function-calling request or the reformat sub-request
\* (the timer won; the request is not cancelled). Each kind is absent, still
\* to complete, or completed and dropped.
LoserKinds == {"timer", "request", "reformat"}
NoLosers == [k \in LoserKinds |-> "none"]

\* What resolveConfig has not produced yet.
NoResolution == [ok |-> FALSE, fields |-> NoFields, message |-> ""]

\* No process is followed: the Orchestrator is used as an object.
NoProcess ==
  [phase |-> "none", argv |-> <<>>, defaultConfig |-> EmptyConfig,
   projectConfig |-> Null, cliConfig |-> EmptyConfig, presetName |-> Undefined,
   resolved |-> NoResolution, initialTask |-> Undefined, printed |-> "",
   exited |-> FALSE, exitCode |-> 0]

\* The locals of a task before its call.
IdleTask ==
  [pc |-> "idle", agentResponse |-> NoResponse, steps |-> 0, callIndex |-> 0,
   results |-> <<>>, toolCall |-> NoToolCall, toolResults |-> <<>>,
   answerText |-> "", outcome |-> NoOutcome, iterations |-> 0, request |-> <<>>,
   backend |-> <<>>, race |-> NoRace, structuredResponse |-> NoBody,
   history |-> <<>>]

(***************************************************************************)
(* State after construction.                                               *)
(***************************************************************************)
ConstructedBy(processes, ceilings, schemas) ==
  /\ isConnected = FALSE
  /\ connected = FALSE
  /\ maxSteps \in ceilings
  /\ responseSchema \in schemas
  /\ currentQuery = <<>>
  /\ conversationHistory = <<>>
  /\ pc = "idle"
  /\ entry = "none"
  /\ agentResponse = NoResponse
  /\ steps = 0
  /\ callIndex = 0
  /\ results = <<>>
  /\ toolCall = NoToolCall
  /\ toolResults = <<>>
  /\ request = <<>>
  /\ answerText = ""
  /\ outcome = NoOutcome
  /\ backend = <<>>
  /\ iterations = 0
  /\ race = NoRace
  /\ structuredResponse = NoBody
  /\ losers = NoLosers
  /\ other = IdleTask
  /\ cli \in processes

\* The Orchestrator used as an object, with no process followed around it.
Constructed(ceilings, schemas) == ConstructedBy({NoProcess}, ceilings, schemas)

Init == Constructed(1..MaxCeiling, BOOLEAN)

(***************************************************************************)
(* Operations.                                                             *)
(***************************************************************************)
\* The caller has consumed the outcome of its last task and makes another call:
\* nothing of the finished task is left but the fields of the objects.
Forget ==
  /\ entry' = "none"
  /\ agentResponse' = NoResponse
  /\ steps' = 0
  /\ iterations' = 0
  /\ outcome' = NoOutcome
  /\ structuredResponse' = NoBody
  /\ race' = NoRace

\* Orchestrator.connect with MCPClient.connect and MCPClient.listTools.
Connect(how) ==
  /\ pc = "idle"
  /\ IF isConnected
     THEN UNCHANGED <<isConnected, connected, entry, agentResponse, steps,
                      iterations, outcome, structuredResponse, race>>
     ELSE /\ CASE how = "ok" -> connected' = TRUE /\ isConnected' = TRUE
            [] how = "connectFails" -> UNCHANGED <<isConnected, connected>>
            [] how = "listToolsFails" -> connected' = TRUE /\ UNCHANGED isConnected
          /\ Forget
  /\ UNCHANGED <<maxSteps, responseSchema, currentQuery, conversationHistory, pc,
                 callIndex, results, toolCall, toolResults, request, answerText,
                 backend>>

\* The fields of the GeminiClient that change or differ between sessions.
Session ==
  [conversationHistory |-> conversationHistory, responseSchema |-> responseSchema]

\* A reset that drops the last turn of the history only.
reset_DropsLast(session) ==
  [session EXCEPT !.conversationHistory =
                    IF Len(@) = 0 THEN @ ELSE SubSeq(@, 1, Len(@) - 1)]

\* GeminiClient.reset: this.conversationHistory = [].
reset(session) == [session EXCEPT !.conversationHistory = <<>>]

\* Orchestrator.cleanup with MCPClient.close and GeminiClient.reset.
Cleanup(how) ==
  /\ pc = "idle"
  /\ connected' = IF connected /\ how = "ok" THEN FALSE ELSE connected
  /\ conversationHistory' = reset(Session).conversationHistory
  /\ isConnected' = FALSE
  /\ Forget
  /\ UNCHANGED <<maxSteps, responseSchema, currentQuery, pc, callIndex, results,
                 toolCall, toolResults, request, answerText, backend>>

\* executeTask that records the query before it tests the connection.
ExecuteTask_QueryFirst(userQuery) ==
  /\ pc = "idle"
  /\ entry' = "executeTask"
  /\ currentQuery' = userQuery
  /\ IF ~isConnected
     THEN Apply([Task EXCEPT !.outcome = Thrown(NotConnectedMessage)])
     ELSE Apply(Begin(Task, startAgent(conversationHistory, userQuery)))
  /\ UNCHANGED <<isConnected, connected, maxSteps, responseSchema>>

\* Orchestrator.executeTask up to the first await of GeminiClient.startAgent.
ExecuteTask(userQuery) ==
  /\ pc = "idle"
  /\ entry' = "executeTask"
  /\ IF ~isConnected
     THEN /\ Apply([Task EXCEPT !.outcome = Thrown(NotConnectedMessage)])
          /\ UNCHANGED currentQuery
     ELSE /\ currentQuery' = userQuery
          /\ Apply(Begin(Task, startAgent(conversationHistory, userQuery)))
  /\ UNCHANGED <<isConnected, connected, maxSteps, responseSchema>>

\* Orchestrator.continueConversation up to the first await of addUserMessage.
ContinueConversation(userMessage) ==
  /\ pc = "idle"
  /\ Len(conversationHistory) < MaxHistory
  /\ entry' = "continueConversation"
  /\ IF ~isConnected
     THEN /\ Apply([Task EXCEPT !.outcome = Thrown(NotConnectedMessage)])
          /\ UNCHANGED currentQuery
     ELSE /\ currentQuery' = userMessage
          /\ Apply(Begin(Task, Append(conversationHistory, MessageTurn(userMessage))))
  /\ UNCHANGED <<isConnected, connected, maxSteps, responseSchema>>

\* sleep(requestDelayMs) is over: generateContent is called with the history.
SendRequest ==
  /\ pc = "delay"
  /\ pc' = "model_wait"
  /\ request' = conversationHistory
  /\ race' = Pending
  /\ UNCHANGED <<isConnected, connected, maxSteps, responseSchema, currentQuery,
                 conversationHistory, entry, agentResponse, steps, callIndex,
                 results, toolCall, toolResults, answerText, outcome, backend,
                 iterations, structuredResponse>>

\* The function-calling request replies before its timer fires.
ModelReply(reply) ==
  /\ pc = "model_wait"
  /\ Apply(callGeminiWithTimeout(race.by # "pending", Task, OnReply(Task, reply)))
  /\ UNCHANGED <<isConnected, connected, maxSteps, responseSchema, currentQuery,
                 entry>>

\* The timer of callGeminiWithTimeout fires first.
ModelTimeout ==
  /\ pc \in {"model_wait", "reformat_wait"}
  /\ Apply(callGeminiWithTimeout(race.by # "pending", Task, OnTimeout(Task)))
  /\ UNCHANGED <<isConnected, connected, maxSteps, responseSchema, currentQuery,
                 entry>>

\* sleep(requestDelayMs) before the reformat sub-request is over.
SendReformat ==
  /\ pc = "reformat_delay"
  /\ pc' = "reformat_wait"
  /\ race' = Pending
  /\ request' = <<UserTurn("Based on your analysis, provide a structured JSON response according to the schema:\n\n" \o answerText)>>
  /\ UNCHANGED <<isConnected, connected, maxSteps, responseSchema, currentQuery,
                 conversationHistory, entry, agentResponse, steps, callIndex,
                 results, toolCall, toolResults, answerText, outcome, backend,
                 iterations, structuredResponse>>

\* The reformat sub-request replies before its timer fires.
ReformatReply(body) ==
  /\ pc = "reformat_wait"
  /\ Apply(callGeminiWithTimeout(race.by # "pending", Task, OnReformatReply(Task, body)))
  /\ UNCHANGED <<isConnected, connected, maxSteps, responseSchema, currentQuery,
                 entry>>

\* client.callTool resolves.
ToolReturn(raw) ==
  /\ pc = "tool_wait"
  /\ Apply(OnToolResult(Task, raw))
  /\ UNCHANGED <<isConnected, connected, maxSteps, responseSchema, currentQuery,
                 entry>>

\* client.callTool rejects.
ToolThrow(message) ==
  /\ pc = "tool_wait"
  /\ Apply(OnToolError(Task, message))
  /\ UNCHANGED <<isConnected, connected, maxSteps, responseSchema, currentQuery,
                 entry>>

\* A 'line' handler that closes the session when the task has thrown.
LineHandled_ErrorEndsSession(out) ==
  [displayed |-> IF out.kind = "return" THEN out.value ELSE Undefined,
   reported |-> IF out.kind = "throw" THEN "\nError: " \o out.value.v ELSE "",
   prompt |-> out.kind = "return"]

\* The 'line' handler of the interactive session once continueConversation has
\* settled with out: handleResponse displays a returned value, the catch
\* reports the message of a thrown error; then readlineInterface.prompt().
LineHandled(out) ==
  [displayed |-> IF out.kind = "return" THEN out.value ELSE Undefined,
   reported |-> IF out.kind = "throw" THEN "\nError: " \o out.value.v ELSE "",
   prompt |-> TRUE]

\* One task at a time, and races followed up to their settlement only.
Sequential == UNCHANGED <<losers, other, cli>>

Next ==
  \/ \E how \in {"ok", "connectFails", "listToolsFails"} : Connect(how) /\ Sequential
  \/ \E how \in {"ok", "closeFails"} : Cleanup(how) /\ Sequential
  \/ \E q \in Queries : ExecuteTask(q) /\ Sequential
  \/ \E m \in Messages : ContinueConversation(m) /\ Sequential
  \/ SendRequest /\ Sequential
  \/ \E reply \in Replies : ModelReply(reply) /\ Sequential
  \/ ModelTimeout /\ Sequential
  \/ SendReformat /\ Sequential
  \/ \E body \in ReformatBodies : ReformatReply(body) /\ Sequential
  \/ \E raw \in RawResults : ToolReturn(raw) /\ Sequential
  \/ \E message \in ToolErrors : ToolThrow(message) /\ Sequential

Spec == Init /\ [][Next]_vars

(***************************************************************************)
(* The end-to-end scenario: no response schema, and a language backend that *)
(* requests one capability in its first reply, one in its second, and calls *)
(* provide_answer in its third. The reply to the first request of a task    *)
(* arrives with steps = 0, the reply to the continueAgent call of step n    *)
(* with steps = n.                                                          *)
(***************************************************************************)
ScenarioAnswer == "X is 42"

ScenarioScript ==
  << Reply(<<Navigate("https://example.com/")>>),
     Reply(<<Click>>),
     Reply(<<ProvideAnswer(Str(ScenarioAnswer))>>) >>

ScenarioInit == Constructed(1..ScenarioCeiling, {FALSE})

ScenarioReply ==
  /\ steps + 1 <= Len(ScenarioScript)
  /\ ModelReply(ScenarioScript[steps + 1])

ScenarioNext ==
  \/ \E how \in {"ok", "connectFails", "listToolsFails"} : Connect(how) /\ Sequential
  \/ \E how \in {"ok", "closeFails"} : Cleanup(how) /\ Sequential
  \/ \E q \in Queries : ExecuteTask(q) /\ Sequential
  \/ \E m \in Messages : ContinueConversation(m) /\ Sequential
  \/ SendRequest /\ Sequential
  \/ ScenarioReply /\ Sequential
  \/ \E raw \in RawResults : ToolReturn(raw) /\ Sequential
  \/ \E message \in ToolErrors : ToolThrow(message) /\ Sequential

SpecScenario == ScenarioInit /\ [][ScenarioNext]_vars


(***************************************************************************)
(* The races of callGeminiWithTimeout followed beyond their settlement: the *)
(* timer of a request that replied stays armed, and the request of a timer  *)
(* that fired stays in flight; either can complete at any later moment, in  *)
(* the same task or in a later one.                                         *)
(***************************************************************************)
RaceReplies ==
  { Reply(<<Click>>), Reply(<<ProvideAnswer(Str("Price is $10"))>>), NoCandidate }

RaceBodies == { Str("{\"price\":10}"), Str("Price is $10") }

Left(kind) == losers' = [losers EXCEPT ![kind] = "pending"]

\* The reply wins the race: the timer is left armed.
RaceModelReply(reply) == ModelReply(reply) /\ Left("timer")
RaceReformatReply(body) == ReformatReply(body) /\ Left("timer")

\* The timer wins the race: the request is left in flight.
RaceModelTimeout ==
  /\ ModelTimeout
  /\ Left(IF pc = "model_wait" THEN "request" ELSE "reformat")

\* The timer of a settled race fires.
LateTimer ==
  /\ losers["timer"] = "pending"
  /\ losers' = [losers EXCEPT !["timer"] = "ignored"]
  /\ Apply(callGeminiWithTimeout(TRUE, Task, OnTimeout(Task)))
  /\ UNCHANGED <<isConnected, connected, maxSteps, responseSchema, currentQuery,
                 entry>>

\* The function-calling request of a settled race replies.
LateReply(reply) ==
  /\ losers["request"] = "pending"
  /\ losers' = [losers EXCEPT !["request"] = "ignored"]
  /\ Apply(callGeminiWithTimeout(TRUE, Task, OnReply(Task, reply)))
  /\ UNCHANGED <<isConnected, connected, maxSteps, responseSchema, currentQuery,
                 entry>>

\* The reformat sub-request of a settled race replies.
LateReformatReply(body) ==
  /\ losers["reformat"] = "pending"
  /\ losers' = [losers EXCEPT !["reformat"] = "ignored"]
  /\ Apply(callGeminiWithTimeout(TRUE, Task, OnReformatReply(Task, body)))
  /\ UNCHANGED <<isConnected, connected, maxSteps, responseSchema, currentQuery,
                 entry>>

RaceNext ==
  \/ \E how \in {"ok", "connectFails", "listToolsFails"} : Connect(how) /\ Sequential
  \/ \E how \in {"ok", "closeFails"} : Cleanup(how) /\ Sequential
  \/ \E q \in Queries : ExecuteTask(q) /\ Sequential
  \/ \E m \in Messages : ContinueConversation(m) /\ Sequential
  \/ SendRequest /\ Sequential
  \/ SendReformat /\ Sequential
  \/ \E raw \in RawResults : ToolReturn(raw) /\ Sequential
  \/ \E message \in ToolErrors : ToolThrow(message) /\ Sequential
  \/ \E reply \in RaceReplies : RaceModelReply(reply) /\ UNCHANGED <<other, cli>>
  \/ \E body \in RaceBodies : RaceReformatReply(body) /\ UNCHANGED <<other, cli>>
  \/ RaceModelTimeout /\ UNCHANGED <<other, cli>>
  \/ LateTimer /\ UNCHANGED <<other, cli>>
  \/ \E reply \in RaceReplies : LateReply(reply) /\ UNCHANGED <<other, cli>>
  \/ \E body \in RaceBodies : LateReformatReply(body) /\ UNCHANGED <<other, cli>>

SpecRace == Init /\ [][RaceNext]_vars


(***************************************************************************)
(* The interactive session: the 'line' handler of readline calls            *)
(* continueConversation for every line, whether or not the call made for an *)
(* earlier line has returned. A line that arrives while a task is running   *)
(* starts a second task on the same Orchestrator; both tasks share the      *)
(* fields of the Orchestrator, of the GeminiClient and of the MCPClient.    *)
(* (The replies of the session request no bare Google URL, so no task       *)
(* rewrites arguments held by a turn of the other.)                         *)
(***************************************************************************)
SessionReplies ==
  { Reply(<<Click>>), Reply(<<ProvideAnswer(Str("Price is $10"))>>) }

\* The lines typed while the call made for an earlier line is still running.
LaterLines == { <<"cheap", " ", "flights">> }

SessionInit == Constructed(1..MaxCeiling, {FALSE})

\* The second task, reading the shared history.
OtherTask == [other EXCEPT !.history = conversationHistory]

ApplyOther(st) ==
  /\ other' = [st EXCEPT !.history = <<>>]
  /\ conversationHistory' = st.history

\* The locals of the first task and the fields no task writes after connect.
firstTask ==
  <<pc, entry, agentResponse, steps, callIndex, results, toolCall, toolResults,
    request, answerText, outcome, backend, iterations, race, structuredResponse>>
fields == <<isConnected, connected, maxSteps, responseSchema>>

\* The line handler while the call made for an earlier line is still running:
\* Orchestrator.continueConversation up to the first await of addUserMessage.
LineWhileBusy(userMessage) ==
  /\ pc # "idle"
  /\ other.pc = "idle"
  /\ Len(conversationHistory) < MaxHistory
  /\ IF ~isConnected
     THEN /\ other' = [other EXCEPT !.outcome = Thrown(NotConnectedMessage)]
          /\ UNCHANGED <<currentQuery, conversationHistory>>
     ELSE /\ currentQuery' = userMessage
          /\ ApplyOther(Begin(OtherTask,
                              Append(conversationHistory, MessageTurn(userMessage))))
  /\ UNCHANGED <<cli, fields, firstTask, losers>>

OtherSendRequest ==
  /\ other.pc = "delay"
  /\ other' = [other EXCEPT !.pc = "model_wait", !.request = conversationHistory,
                            !.race = Pending]
  /\ UNCHANGED <<cli, fields, firstTask, losers, currentQuery, conversationHistory>>

OtherModelReply(reply) ==
  /\ other.pc = "model_wait"
  /\ ApplyOther(callGeminiWithTimeout(other.race.by # "pending", OtherTask,
                                      OnReply(OtherTask, reply)))
  /\ UNCHANGED <<cli, fields, firstTask, losers, currentQuery>>

OtherModelTimeout ==
  /\ other.pc = "model_wait"
  /\ ApplyOther(callGeminiWithTimeout(other.race.by # "pending", OtherTask,
                                      OnTimeout(OtherTask)))
  /\ UNCHANGED <<cli, fields, firstTask, losers, currentQuery>>

OtherToolReturn(raw) ==
  /\ other.pc = "tool_wait"
  /\ ApplyOther(OnToolResult(OtherTask, raw))
  /\ UNCHANGED <<cli, fields, firstTask, losers, currentQuery>>

OtherToolThrow(message) ==
  /\ other.pc = "tool_wait"
  /\ ApplyOther(OnToolError(OtherTask, message))
  /\ UNCHANGED <<cli, fields, firstTask, losers, currentQuery>>

\* The first task follows the result of its own calls only.
Alone == UNCHANGED <<losers, other, cli>>

SessionNext ==
  \/ \E how \in {"ok", "connectFails", "listToolsFails"} : Connect(how) /\ Alone
  \/ \E m \in Messages : ContinueConversation(m) /\ Alone
  \/ SendRequest /\ Alone
  \/ \E reply \in SessionReplies : ModelReply(reply) /\ Alone
  \/ ModelTimeout /\ Alone
  \/ \E raw \in RawResults : ToolReturn(raw) /\ Alone
  \/ \E message \in ToolErrors : ToolThrow(message) /\ Alone
  \/ \E m \in LaterLines : LineWhileBusy(m)
  \/ OtherSendRequest
  \/ \E reply \in SessionReplies : OtherModelReply(reply)
  \/ OtherModelTimeout
  \/ \E raw \in RawResults : OtherToolReturn(raw)
  \/ \E message \in ToolErrors : OtherToolThrow(message)

SpecSession == SessionInit /\ [][SessionNext]_vars


(***************************************************************************)
(* Navigation: a language backend that requests navigate_page with one of   *)
(* the URLs below, for queries with single and multiple whitespace.         *)
(***************************************************************************)
NavigateUrls ==
  BareGoogleUrls \cup
  { "HTTPS://WWW.Google.COM", "https://www.google.com/",
    "https://www.google.com/search?q=cats", "https://www.google.com?hl=en",
    "https://example.com/?q=a b", "https://example.com/" }

NavigateQueries ==
  { <<"best", " ", "pizza">>, <<"best", " ", "\t", "pizza">>,
    <<" ", "cheap", "\n", " ", "flights", " ">> }

NavigateInit == Constructed(1..NavigateCeiling, {FALSE})

NavigateReply(u) == ModelReply(Reply(<<Navigate(u)>>))

\* A reply that requests a click and then the bare Google homepage: the url is
\* rewritten once the click has been awaited.
ClickThenNavigateReply == ModelReply(Reply(<<Click, Navigate("google.com")>>))

NavigateNext ==
  \/ \E how \in {"ok", "connectFails", "listToolsFails"} : Connect(how) /\ Sequential
  \/ \E how \in {"ok", "closeFails"} : Cleanup(how) /\ Sequential
  \/ \E q \in NavigateQueries : ExecuteTask(q) /\ Sequential
  \/ \E m \in NavigateQueries : ContinueConversation(m) /\ Sequential
  \/ SendRequest /\ Sequential
  \/ \E u \in NavigateUrls : NavigateReply(u) /\ Sequential
  \/ ClickThenNavigateReply /\ Sequential
  \/ \E raw \in RawResults : ToolReturn(raw) /\ Sequential
  \/ \E message \in ToolErrors : ToolThrow(message) /\ Sequential

SpecNavigate == NavigateInit /\ [][NavigateNext]_vars


(***************************************************************************)
(* Tools: an automation backend that resolves with every kind of raw       *)
(* result, and a language backend that requests tools with and without a   *)
(* url argument.                                                           *)
(***************************************************************************)
ToolsResults ==
  { RawString("Clicked"),
    RawContent(<<Item("text", "Page loaded"), Media("image", "iVBORw0")>>),
    RawContent(<<Item("text", "Recorded"), Media("audio", "UklGRg")>>),
    RawContent(<<Item("text", "")>>),
    RawError(<<Item("text", "Timed out waiting for selector")>>),
    RawObject("{\n  \"ok\": true\n}"),
    RawValue(Undefined) }

ToolsReplies ==
  { Reply(<<Click>>),
    Reply(<<FC(Str("new_page"), [NoArgs EXCEPT !.url = Str("google.com")])>>),
    Reply(<<Navigate("https://example.com/"), Navigate("google.com")>>),
    Reply(<<Navigate("google.com"), FC(Str("navigate_page"), NoArgs)>>) }

ToolsInit == Constructed(1..ToolsCeiling, {FALSE})

ToolsNext ==
  \/ \E how \in {"ok", "connectFails", "listToolsFails"} : Connect(how) /\ Sequential
  \/ \E how \in {"ok", "closeFails"} : Cleanup(how) /\ Sequential
  \/ \E q \in Queries : ExecuteTask(q) /\ Sequential
  \/ \E m \in Messages : ContinueConversation(m) /\ Sequential
  \/ SendRequest /\ Sequential
  \/ \E reply \in ToolsReplies : ModelReply(reply) /\ Sequential
  \/ \E raw \in ToolsResults : ToolReturn(raw) /\ Sequential
  \/ \E message \in ToolErrors : ToolThrow(message) /\ Sequential

SpecTools == ToolsInit /\ [][ToolsNext]_vars


(***************************************************************************)
(* Mixed replies: a language backend whose replies hold a provide_answer    *)
(* call with a non-empty answer together with other invocation requests.    *)
(***************************************************************************)
MixedReplies ==
  { Reply(<<Click, ProvideAnswer(Str("Price is $10"))>>),
    Reply(<<ProvideAnswer(Str("Price is $10")), Click>>),
    Reply(<<ProvideAnswer(Str("")), ProvideAnswer(Str("Price is $10"))>>) }

MixedInit == Constructed(1..MixedCeiling, BOOLEAN)

MixedNext ==
  \/ \E how \in {"ok", "connectFails", "listToolsFails"} : Connect(how) /\ Sequential
  \/ \E how \in {"ok", "closeFails"} : Cleanup(how) /\ Sequential
  \/ \E q \in Queries : ExecuteTask(q) /\ Sequential
  \/ \E m \in Messages : ContinueConversation(m) /\ Sequential
  \/ SendRequest /\ Sequential
  \/ \E reply \in MixedReplies : ModelReply(reply) /\ Sequential
  \/ ModelTimeout /\ Sequential
  \/ SendReformat /\ Sequential
  \/ \E body \in ReformatBodies : ReformatReply(body) /\ Sequential
  \/ \E raw \in RawResults : ToolReturn(raw) /\ Sequential
  \/ \E message \in ToolErrors : ToolThrow(message) /\ Sequential

SpecMixed == MixedInit /\ [][MixedNext]_vars


(***************************************************************************)
(* Tasks followed to their end. Every await of a task completes: the sleep  *)
(* before a request ends, a request replies or its timer fires (the timer   *)
(* of callGeminiWithTimeout is a setTimeout of 60000 ms), and client.callTool *)
(* resolves or rejects. Callers need not call.                              *)
(***************************************************************************)
LiveReplies ==
  { Reply(<<Click>>), Reply(<<ProvideAnswer(Str("Price is $10"))>>),
    Reply(<<TextPart("I cannot")>>) }

LiveInit == Constructed(1..LiveCeiling, BOOLEAN)

\* The completion of the await the task is at.
TaskStep ==
  \/ SendRequest /\ Sequential
  \/ \E reply \in LiveReplies : ModelReply(reply) /\ Sequential
  \/ ModelTimeout /\ Sequential
  \/ SendReformat /\ Sequential
  \/ \E body \in ReformatBodies : ReformatReply(body) /\ Sequential
  \/ \E raw \in RawResults : ToolReturn(raw) /\ Sequential
  \/ \E message \in ToolErrors : ToolThrow(message) /\ Sequential

LiveNext ==
  \/ \E how \in {"ok", "connectFails", "listToolsFails"} : Connect(how) /\ Sequential
  \/ \E how \in {"ok", "closeFails"} : Cleanup(how) /\ Sequential
  \/ \E q \in Queries : ExecuteTask(q) /\ Sequential
  \/ \E m \in Messages : ContinueConversation(m) /\ Sequential
  \/ TaskStep

SpecLive == LiveInit /\ [][LiveNext]_vars /\ WF_vars(TaskStep)


(***************************************************************************)
(* cleanup called while a task is running, as the 'close' handler of the    *)
(* interactive session does (on SIGINT, on the end of the input, and on     *)
(* 'exit' typed while a task runs) before it exits the process. The         *)
(* position of the cleanup is kept in other.pc: "close_wait" while it awaits *)
(* MCPClient.close.                                                         *)
(***************************************************************************)
\* Contents that are the array the field of the session holds at any moment.
Contents_SharedWithField(sent, field) == field

\* The contents of a request that is in flight: the array generateContent was
\* handed when the request was made. reset assigns a new array to the field
\* and leaves that array as it is.
Contents(sent, field) == sent

\* Orchestrator.cleanup up to its await of MCPClient.close.
CleanupCalled ==
  /\ pc # "idle"
  /\ other.pc = "idle"
  /\ other' = [other EXCEPT !.pc = "close_wait"]
  /\ UNCHANGED <<isConnected, connected, maxSteps, responseSchema, currentQuery,
                 conversationHistory, pc, entry, agentResponse, steps, callIndex,
                 results, toolCall, toolResults, request, answerText, outcome,
                 backend, iterations, race, structuredResponse, losers, cli>>

\* MCPClient.close has settled: GeminiClient.reset, isConnected = false.
CloseSettled(how) ==
  /\ other.pc = "close_wait"
  /\ other' = [other EXCEPT !.pc = "idle"]
  /\ connected' = IF connected /\ how = "ok" THEN FALSE ELSE connected
  /\ conversationHistory' = reset(Session).conversationHistory
  /\ request' = Contents(request, conversationHistory')
  /\ isConnected' = FALSE
  /\ UNCHANGED <<maxSteps, responseSchema, currentQuery, pc, entry, agentResponse,
                 steps, callIndex, results, toolCall, toolResults, answerText,
                 outcome, backend, iterations, race, structuredResponse, losers,
                 cli>>

CloseInit == Constructed(1..CloseCeiling, BOOLEAN)

CloseNext ==
  \/ \E how \in {"ok", "connectFails", "listToolsFails"} : Connect(how) /\ Sequential
  \/ \E how \in {"ok", "closeFails"} : Cleanup(how) /\ Sequential
  \/ \E q \in Queries : ExecuteTask(q) /\ Sequential
  \/ \E m \in Messages : ContinueConversation(m) /\ Sequential
  \/ TaskStep
  \/ CleanupCalled
  \/ \E how \in {"ok", "closeFails"} : CloseSettled(how)

SpecClose == CloseInit /\ [][CloseNext]_vars


(***************************************************************************)
(* Resolution of the configuration: resolveConfig applied to configurations *)
(* of the four sources. Each source marks the values it defines with its    *)
(* own name, so that the source of a resolved value can be told.            *)
(***************************************************************************)
Tagged(tag, defined) ==
  [f \in ConfigFields |-> IF f \in defined THEN Str(tag) ELSE Undefined]

Definitions == { {}, ConfigFields, {"maxSteps"}, {"interactive", "model", "schema"} }

PresetsOf(tag) ==
  { Undefined,
    [NoPresets EXCEPT !["quick"] = Tagged(tag, {"maxSteps", "schema"})],
    [NoPresets EXCEPT !["quick"] = Tagged(tag, ConfigFields)] }

DefaultConfigs ==
  { Config(Tagged("default", d), p) :
      d \in Definitions, p \in PresetsOf("default preset") }

\* null: there is no project configuration file. A JSON null is a value.
ProjectConfigs ==
  { Null, Config([Tagged("project", {"maxSteps"}) EXCEPT !["schema"] = Null], Undefined) }
    \cup { Config(Tagged("project", d), p) :
             d \in Definitions, p \in PresetsOf("project preset") }

CliConfigs == { Config(Tagged("cli", d), Undefined) : d \in Definitions }

SelectedPresets == { Undefined, Str(""), Str("quick"), Str("slow") }

ConfigInit ==
  ConstructedBy({ [NoProcess EXCEPT !.phase = "resolve", !.defaultConfig = d,
                                    !.projectConfig = p, !.cliConfig = c,
                                    !.presetName = n] :
                  d \in DefaultConfigs, p \in ProjectConfigs, c \in CliConfigs,
                  n \in SelectedPresets },
                {1}, {FALSE})

\* resolveConfig is called with the configuration of the flags and the name of
\* the preset.
ResolveConfig ==
  /\ cli.phase = "resolve"
  /\ cli' = [cli EXCEPT !.phase = "resolved",
                        !.resolved = resolveConfig(cli.defaultConfig, cli.projectConfig,
                                                   cli.cliConfig, cli.presetName)]
  /\ UNCHANGED <<isConnected, connected, maxSteps, responseSchema, currentQuery,
                 conversationHistory, pc, entry, agentResponse, steps, callIndex,
                 results, toolCall, toolResults, request, answerText, outcome,
                 backend, iterations, race, structuredResponse, losers, other>>

ConfigNext == ResolveConfig

SpecConfig == ConfigInit /\ [][ConfigNext]_vars


(***************************************************************************)
(* The process: main, from the command line to the interactive session.     *)
(* GEMINI_API_KEY is set. The Orchestrator is constructed by main; until     *)
(* then maxSteps and responseSchema hold no value that is read.             *)
(***************************************************************************)
Arguments == {"--help", "-h", "--preset", "quick", "find"}

\* cliArguments[index].startsWith('--'), for the arguments above.
StartsWithDashes(argument) == argument \in {"--help", "--preset"}

BooleanFlags == {"--no-interactive", "--help", "-h"}

\* cliFlags.set(key, value)
MapSet(map, key, value) ==
  [k \in DOMAIN map \cup {key} |-> IF k = key THEN value ELSE map[k]]

\* The loop of parseCliArguments from index on.
RECURSIVE ParseFrom(_, _, _, _)
ParseFrom(argv, index, cliFlags, remaining) ==
  IF index > Len(argv)
  THEN [cliFlags |-> cliFlags, remainingArguments |-> remaining]
  ELSE LET argument == argv[index] IN
       IF StartsWithDashes(argument) /\ argument \in BooleanFlags
       THEN ParseFrom(argv, index + 1, MapSet(cliFlags, argument, "true"), remaining)
       ELSE IF /\ StartsWithDashes(argument)
               /\ index + 1 <= Len(argv)
               /\ ~StartsWithDashes(argv[index + 1])
       THEN ParseFrom(argv, index + 2, MapSet(cliFlags, argument, argv[index + 1]),
                      remaining)
       ELSE IF StartsWithDashes(argument)
       THEN ParseFrom(argv, index + 1, MapSet(cliFlags, argument, "true"), remaining)
       ELSE ParseFrom(argv, index + 1, cliFlags, Append(remaining, argument))

parseCliArguments(cliArguments) == ParseFrom(cliArguments, 1, <<>>, <<>>)

\* remainingArguments.join(' ') as the tokens of a query: the arguments with one
\* space between them.
RECURSIVE JoinTokens(_)
JoinTokens(arguments) ==
  IF Len(arguments) <= 1 THEN arguments
  ELSE <<Head(arguments), " ">> \o JoinTokens(Tail(arguments))

\* The number a configuration holds for maxSteps.
NumberValue(x) == CASE x.v = "0" -> 0 [] x.v = "1" -> 1 [] x.v = "2" -> 2

\* The default configuration file of the package.
MainDefault(schema, interactive) ==
  Config([interactive |-> Bool(interactive), maxSteps |-> Num("1"),
          model |-> Str("gemini-2.5-flash"), requestDelayMs |-> Num("0"),
          schema |-> schema, temperature |-> Num("0"), thinkingBudget |-> Num("0")],
         [NoPresets EXCEPT !["quick"] = [NoFields EXCEPT !["maxSteps"] = Num("2")]])

MainDefaults ==
  { MainDefault(Undefined, TRUE), MainDefault(Str("schemas/price-schema.ts"), FALSE) }

\* .chrome-geminirc.json of the working directory: absent, or any JSON object,
\* here { "maxSteps": 0 }.
MainProjects == { Null, Config([NoFields EXCEPT !["maxSteps"] = Num("0")], NoPresets) }

Argvs == UNION { [1..n -> Arguments] : n \in 0..MaxArgs }

MainInit ==
  ConstructedBy({ [NoProcess EXCEPT !.phase = "start", !.argv = a, !.defaultConfig = d,
                                    !.projectConfig = p] :
                  a \in Argvs, d \in MainDefaults, p \in MainProjects },
                {1}, {FALSE})

\* The variables of the Orchestrator, of its clients and of the task.
orchestrator ==
  <<isConnected, connected, maxSteps, responseSchema, currentQuery,
    conversationHistory, pc, entry, agentResponse, steps, callIndex, results,
    toolCall, toolResults, request, answerText, outcome, backend, iterations,
    race, structuredResponse>>

\* process.exit(code) after what was printed last.
Exit(process, printed, code) ==
  [process EXCEPT !.phase = "exited", !.printed = printed, !.exited = TRUE,
                  !.exitCode = code]

Interactive == Truthy(cli.resolved.fields["interactive"])

\* new Orchestrator(apiKey, schema, maxSteps, ...)
Construct(schema) ==
  /\ maxSteps' = NumberValue(cli'.resolved.fields["maxSteps"])
  /\ responseSchema' = schema
  /\ UNCHANGED <<isConnected, connected, currentQuery, conversationHistory, pc, entry,
                 agentResponse, steps, callIndex, results, toolCall, toolResults,
                 request, answerText, outcome, backend, iterations, race,
                 structuredResponse>>

\* main up to its first await: the arguments are parsed; a help flag shows the
\* usage and exits; else the configuration is resolved (an error is printed by
\* the catch of main, which exits with 1) and either the schema is loaded or the
\* Orchestrator is constructed and connect is called.
MainStart ==
  /\ cli.phase = "start"
  /\ LET parsed == parseCliArguments(cli.argv)
         flags == parsed.cliFlags
         presetName == IF "--preset" \in DOMAIN flags THEN Str(flags["--preset"])
                       ELSE Undefined
         resolved == resolveConfig(cli.defaultConfig, cli.projectConfig, EmptyConfig,
                                   presetName)
         configured == [cli EXCEPT !.presetName = presetName, !.resolved = resolved,
                                   !.initialTask =
                                      IF Len(parsed.remainingArguments) > 0
                                      THEN JoinTokens(parsed.remainingArguments)
                                      ELSE Undefined]
     IN IF "--help" \in DOMAIN flags \/ "-h" \in DOMAIN flags
        THEN cli' = Exit(cli, "usage", 0) /\ UNCHANGED orchestrator
        ELSE IF ~resolved.ok
        THEN cli' = Exit(configured, "error", 1) /\ UNCHANGED orchestrator
        ELSE IF Truthy(resolved.fields["schema"])
        THEN /\ cli' = [configured EXCEPT !.phase = "schema_wait"]
             /\ UNCHANGED orchestrator
        ELSE /\ cli' = [configured EXCEPT !.phase = "connect_wait", !.printed = "banner"]
             /\ Construct(FALSE)
  /\ UNCHANGED <<losers, other>>

\* loadSchema has settled.
SchemaLoaded(ok) ==
  /\ cli.phase = "schema_wait"
  /\ IF ok
     THEN /\ cli' = [cli EXCEPT !.phase = "connect_wait", !.printed = "banner"]
          /\ Construct(TRUE)
     ELSE cli' = Exit(cli, "error", 1) /\ UNCHANGED orchestrator
  /\ UNCHANGED <<losers, other>>

\* await orchestrator.connect(): an error goes to the catch of main.
MainConnect(how) ==
  /\ cli.phase = "connect_wait"
  /\ Connect(how)
  /\ cli' = IF how = "ok" THEN [cli EXCEPT !.phase = "connected"]
            ELSE Exit(cli, "error", 1)
  /\ UNCHANGED <<losers, other>>

\* main after connect: the initial task, when there is one, is handed to
\* executeTask; without a task a non-interactive run is an error; else the
\* interactive session begins.
MainAfterConnect ==
  /\ cli.phase = "connected"
  /\ IF cli.initialTask # Undefined
     THEN ExecuteTask(cli.initialTask) /\ cli' = [cli EXCEPT !.phase = "task"]
     ELSE IF ~Interactive
     THEN cli' = Exit(cli, "error", 1) /\ UNCHANGED orchestrator
     ELSE cli' = [cli EXCEPT !.phase = "interactive", !.printed = "prompt"]
          /\ UNCHANGED orchestrator
  /\ UNCHANGED <<losers, other>>

\* executeTask of the initial task has settled: an error goes to the catch of
\* main; a non-interactive run writes the result, cleans up and exits; else the
\* result is displayed and the interactive session begins.
MainTaskSettled(how) ==
  /\ cli.phase = "task"
  /\ pc = "idle"
  /\ IF outcome.kind = "throw"
     THEN cli' = Exit(cli, "error", 1) /\ UNCHANGED orchestrator
     ELSE IF ~Interactive
     THEN cli' = Exit(cli, "response", 0) /\ Cleanup(how)
     ELSE cli' = [cli EXCEPT !.phase = "interactive", !.printed = "prompt"]
          /\ UNCHANGED orchestrator
  /\ UNCHANGED <<losers, other>>

\* The 'line' handler for a line that is a message, while no task is running.
Line(userMessage) ==
  /\ cli.phase = "interactive"
  /\ ContinueConversation(userMessage)
  /\ cli' = [cli EXCEPT !.phase = "line", !.printed = ""]
  /\ UNCHANGED <<losers, other>>

\* continueConversation has settled in the 'line' handler.
LineSettled ==
  /\ cli.phase = "line"
  /\ pc = "idle"
  /\ cli' = [cli EXCEPT !.phase = "interactive",
                        !.printed = IF LineHandled(outcome).prompt THEN "prompt"
                                    ELSE ""]
  /\ UNCHANGED orchestrator
  /\ UNCHANGED <<losers, other>>

\* The 'close' handler while no task is running: cleanup, then process.exit(0).
Close(how) ==
  /\ cli.phase = "interactive"
  /\ Cleanup(how)
  /\ cli' = Exit(cli, "", 0)
  /\ UNCHANGED <<losers, other>>

MainNext ==
  \/ MainStart
  \/ \E ok \in BOOLEAN : SchemaLoaded(ok)
  \/ \E how \in {"ok", "connectFails", "listToolsFails"} : MainConnect(how)
  \/ MainAfterConnect
  \/ TaskStep
  \/ \E how \in {"ok", "closeFails"} : MainTaskSettled(how)
  \/ \E m \in Messages : Line(m)
  \/ LineSettled
  \/ \E how \in {"ok", "closeFails"} : Close(how)

SpecMain == MainInit /\ [][MainNext]_vars


(***************************************************************************)
(* Properties.                                                             *)
(***************************************************************************)
Last(seq) == seq[Len(seq)]

\* executeFunctionCalls has returned and its results were handed to continueAgent.
ResultsHandedOver == pc \in {"delay", "model_wait"} /\ steps > 0

TaskReturned == pc = "idle" /\ outcome.kind = "return"

\* C1: in every reachable state of executeTask and of continueConversation the
\* step counter is between 0 and the ceiling, and the loop body has been entered
\* at most ceiling times in the task.
C1_StepsWithinCeiling ==
  /\ steps \in 0..maxSteps
  /\ iterations \in 0..maxSteps
  /\ iterations = steps

C1_Witness ==
  /\ entry = "continueConversation"
  /\ pc = "tool_wait"
  /\ steps = maxSteps
  /\ maxSteps > 1

\* C2: when executeFunctionCalls returns, it returns as many results as the model
\* issued requests in that iteration, the i-th result carrying the name of the
\* i-th request and what the backend did for it, whatever mix of successes and
\* failures occurred; while it runs, it holds one result per request already
\* executed.
C2_OneResultPerRequestInOrder ==
  /\ pc = "tool_wait" =>
       /\ Len(results) = callIndex - 1
       /\ Len(backend) = callIndex - 1
  /\ ResultsHandedOver =>
       LET calls == agentResponse.functionCalls IN
       /\ Len(toolResults) = Len(calls)
       /\ Len(backend) = Len(calls)
       /\ \A i \in 1..Len(calls) :
            /\ toolResults[i].toolName = JsString(calls[i].name)
            /\ backend[i].kind = "resolved" =>
                 toolResults[i].result = formatToolResult(backend[i].raw)
            /\ backend[i].kind = "rejected" =>
                 toolResults[i].result = "Error: " \o backend[i].message
            /\ backend[i].kind = "notCalled" <=> ~IsString(calls[i].name)

C2_Witness ==
  /\ ResultsHandedOver
  /\ Len(toolResults) = 3
  /\ backend[2].kind = "rejected"
  /\ backend[3].kind = "resolved"

\* C3 (as claimed): every invocation request of every model turn of a task gets a
\* result that is fed back, the last model turn before the task ends included: a
\* task never returns while the last turn of the history is a model turn holding
\* requests that were not executed.
C3_NoRequestDropped ==
  (TaskReturned /\ Len(conversationHistory) > 0
     /\ Last(conversationHistory).role = "model")
    => \A i \in 1..Len(Last(conversationHistory).parts) :
         LET part == Last(conversationHistory).parts[i] IN
         IsFunctionCallPart(part) =>
           /\ part.call.name = Str("provide_answer")
           /\ Truthy(part.call.args.answer)

\* C3 (amended): every request of an invoke response that a loop iteration takes
\* up gets exactly one result, and the results are the user turn that follows the
\* model turn in the history sent with the next request; requests are left
\* without a result in two cases only: an invoke response that arrives with
\* steps = ceiling (the task then returns the fixed string), and the requests
\* that accompany a non-empty provide_answer in the reply that ends the task.
C3_ExecutedRequestsAnswered ==
  /\ ResultsHandedOver =>
       LET n == Len(conversationHistory) IN
       /\ Len(toolResults) = Len(agentResponse.functionCalls)
       /\ n >= 2
       /\ conversationHistory[n] = ToolResultsTurn(toolResults)
       /\ conversationHistory[n - 1].role = "model"
       /\ FunctionCallsOf(conversationHistory[n - 1].parts) = agentResponse.functionCalls
       /\ pc = "model_wait" => request = conversationHistory
  /\ (TaskReturned /\ agentResponse.type = "function_call") =>
       /\ steps = maxSteps
       /\ outcome.value = Str(MaxStepsMessage)
  /\ (TaskReturned /\ Len(conversationHistory) > 0
        /\ Last(conversationHistory).role = "model") =>
       LET calls == FunctionCallsOf(Last(conversationHistory).parts) IN
       \/ agentResponse.type = "function_call" /\ agentResponse.functionCalls = calls
       \/ /\ agentResponse.type = "answer"
          /\ \E i \in 1..Len(calls) :
               /\ calls[i].name = Str("provide_answer")
               /\ calls[i].args.answer \notin {Str(""), Undefined}

C3_Witness ==
  /\ TaskReturned
  /\ agentResponse.type = "function_call"
  /\ Len(agentResponse.functionCalls) = 3
  /\ steps = maxSteps
  /\ outcome.value = Str(MaxStepsMessage)

\* C4: a failing tool invocation never aborts the task: no task ends with the
\* error of a tool, the failure is the result 'Error: <message>' of its request,
\* the requests after it are executed too, and the results are what the next
\* continueAgent call sends to the model.
C4_ToolFailureIsAResult ==
  /\ outcome.kind = "throw" =>
       outcome.value.v \notin ToolErrors \cup {ToolNameMessage, McpNotConnectedMessage}
  /\ pc = "tool_wait" =>
       \A i \in 1..Len(backend) :
         /\ backend[i].kind = "rejected" =>
              results[i].result = "Error: " \o backend[i].message
         /\ backend[i].kind = "notCalled" =>
              results[i].result = "Error: " \o ToolNameMessage
  /\ ResultsHandedOver =>
       /\ Len(toolResults) = Len(agentResponse.functionCalls)
       /\ \A i \in 1..Len(backend) :
            /\ backend[i].kind = "rejected" =>
                 toolResults[i].result = "Error: " \o backend[i].message
            /\ backend[i].kind = "notCalled" =>
                 toolResults[i].result = "Error: " \o ToolNameMessage
       /\ Last(conversationHistory) = ToolResultsTurn(toolResults)
       /\ pc = "model_wait" => Last(request) = ToolResultsTurn(toolResults)

C4_Witness ==
  /\ pc = "model_wait"
  /\ steps > 0
  /\ Len(backend) = 3
  /\ backend[1].kind = "notCalled"
  /\ backend[2].kind = "rejected"
  /\ backend[3].kind = "resolved"
  /\ Last(request) = ToolResultsTurn(toolResults)


\* C5 (as claimed): whenever the last AgentResponse of a task is an answer, the
\* task returns exactly that answer value, whatever the value is; the fixed
\* 'task incomplete' string is returned only when no answer was produced.
C5_AnswerIsReturned ==
  TaskReturned =>
    /\ agentResponse.type = "answer" => outcome.value = agentResponse.answer
    /\ outcome.value = Str(MaxStepsMessage) => agentResponse.type # "answer"

\* C6 (as claimed): an answer that arrives from the continueAgent call of the last
\* permitted step (steps = ceiling) is returned as the result, not replaced by
\* the fixed string, and no tool is executed once the answer is there.
C6_AnswerAtCeilingIsReturned ==
  /\ (TaskReturned /\ agentResponse.type = "answer" /\ steps = maxSteps) =>
       outcome.value = agentResponse.answer
  /\ agentResponse.type = "answer" => pc = "idle"

\* C7: when a function-calling reply classified as invoke arrives with
\* steps = ceiling, the loop stops and the task returns the fixed string as a
\* normal return value: nothing is thrown, no tool is executed for that reply, and
\* the orchestrator stays connected.
C7_ExhaustedReturnsSentinel ==
  [][ (/\ pc = "model_wait"
       /\ steps = maxSteps
       /\ Len(conversationHistory') = Len(conversationHistory) + 1
       /\ agentResponse'.type = "function_call"
       /\ FunctionCallsOf(Last(conversationHistory').parts) = agentResponse'.functionCalls)
      => /\ pc' = "idle"
         /\ outcome' = Returned(Str(MaxStepsMessage))
         /\ steps' = steps
         /\ isConnected' /\ connected' ]_vars

C7_Witness ==
  /\ TaskReturned
  /\ entry = "continueConversation"
  /\ agentResponse.type = "function_call"
  /\ steps = maxSteps
  /\ outcome.value = Str(MaxStepsMessage)
  /\ isConnected

\* C8 (as claimed): for every completed task, steps = ceiling holds only if the
\* task ended Exhausted; a task that returns a model answer finishes with
\* steps < ceiling.
C8_EqualityOnlyWhenExhausted ==
  (TaskReturned /\ agentResponse.type = "answer") => steps < maxSteps

\* C8 (amended): every completed task has steps <= ceiling, and a task that ended
\* Exhausted (the loop stopped on an invoke response) has steps = ceiling; a task
\* that returns a model answer may finish with steps = ceiling too.
C8_StepsAtCompletion ==
  TaskReturned =>
    /\ steps <= maxSteps
    /\ agentResponse.type = "function_call" => steps = maxSteps
    /\ agentResponse.type \in {"function_call", "answer"}

C8_Witness ==
  /\ TaskReturned
  /\ agentResponse.type = "answer"
  /\ steps = maxSteps
  /\ outcome.value = agentResponse.answer

\* The first provide_answer call of a reply carries an empty or missing answer.
EmptyProvideAnswer(parts) ==
  LET calls == FunctionCallsOf(parts) IN
  \E i \in 1..Len(calls) :
    /\ calls[i].name = Str("provide_answer")
    /\ calls[i].args.answer \in {Str(""), Undefined}
    /\ \A j \in 1..(i - 1) : calls[j].name # Str("provide_answer")

\* C10: a reply whose provide_answer call has an empty or missing answer never
\* terminates the loop: it is classified as an invoke response holding all its
\* calls, no reformat request is made for it, and the task goes on executing its
\* calls unless the ceiling is reached.
C10_EmptyAnswerDoesNotTerminate ==
  (/\ Len(conversationHistory) > 0
   /\ Last(conversationHistory).role = "model"
   /\ EmptyProvideAnswer(Last(conversationHistory).parts))
  => /\ agentResponse.type = "function_call"
     /\ agentResponse.functionCalls = FunctionCallsOf(Last(conversationHistory).parts)
     /\ pc \in {"tool_wait", "idle"}
     /\ pc = "idle" => /\ steps = maxSteps
                       /\ outcome = Returned(Str(MaxStepsMessage))
     /\ pc = "tool_wait" => steps <= maxSteps

C10_Witness ==
  /\ pc = "tool_wait"
  /\ toolCall.name = "provide_answer"
  /\ toolCall.args.answer = Undefined
  /\ Last(conversationHistory).parts = <<ProvideAnswer(Undefined)>>


\* C9 (as claimed): in the scenario, ceiling = 3 makes the loop consume exactly 3
\* steps and return the answer, and ceiling = 2 makes it return the fixed
\* 'task incomplete' string after step 2.
C9_ScenarioAsClaimed ==
  TaskReturned =>
    /\ maxSteps = 3 => steps = 3 /\ outcome.value = Str(ScenarioAnswer)
    /\ maxSteps = 2 => steps = 2 /\ outcome.value = Str(MaxStepsMessage)

\* C9 (amended): in the scenario the third reply answers the continueAgent call
\* of step 2, so every ceiling >= 2 (3 and 2 alike) makes the loop consume exactly
\* 2 steps and return the answer; only ceiling = 1 returns the fixed string,
\* after step 1.
C9_ScenarioOutcome ==
  TaskReturned =>
    /\ maxSteps >= 2 => steps = 2 /\ outcome.value = Str(ScenarioAnswer)
    /\ maxSteps = 1 => steps = 1 /\ outcome.value = Str(MaxStepsMessage)

C9_Witness ==
  /\ TaskReturned
  /\ entry = "executeTask"
  /\ maxSteps = 3
  /\ steps = 2
  /\ outcome.value = Str(ScenarioAnswer)

\* The free text of the provide_answer call that ended the task: the call is in
\* the last turn of the history, the sub-request appends no turn.
RawAnswerText ==
  LET calls == FunctionCallsOf(Last(conversationHistory).parts)
  IN JsString(calls[FindProvideAnswer(calls)].args.answer)

\* C11: with a response schema configured, the answer of every task that ends
\* with an answer is the JSON-parsed body of the reply to the reformat
\* sub-request of that task; what the task returns is that value (or the fixed
\* string, when the value is falsy), never the free text of provide_answer.
C11_StructuredAnswerIsParsedBody ==
  (responseSchema /\ TaskReturned /\ agentResponse.type = "answer") =>
    /\ structuredResponse \in ReformatBodies
    /\ JsonParse(structuredResponse).ok
    /\ agentResponse.answer = JsonParse(structuredResponse).value
    /\ Truthy(agentResponse.answer) => outcome.value = agentResponse.answer
    /\ outcome.value \in {agentResponse.answer, Str(MaxStepsMessage)}
    /\ outcome.value # Str(RawAnswerText)

C11_Witness ==
  /\ responseSchema
  /\ TaskReturned
  /\ RawAnswerText = "Price is $10"
  /\ structuredResponse = Str("{\"price\":10}")
  /\ outcome.value = Obj("{\"price\":10}")

\* C12: with a response schema configured, a reformat body that is not JSON ends
\* the task with the error of JSON.parse, thrown to the caller of executeTask /
\* continueConversation: the task returns nothing, neither the free text nor the
\* fixed string.
C12_ParseFailurePropagates ==
  (structuredResponse # NoBody /\ ~JsonParse(structuredResponse).ok) =>
    /\ responseSchema
    /\ pc = "idle"
    /\ outcome = Thrown(SyntaxErrorMessage)
    /\ outcome.kind # "return"
    /\ agentResponse.type # "answer"

C12_Witness ==
  /\ responseSchema
  /\ entry = "continueConversation"
  /\ structuredResponse = Str("Price is $10")
  /\ pc = "idle"
  /\ outcome = Thrown(SyntaxErrorMessage)


\* C13: when the timer of a language-backend request fires before the reply,
\* continueAgent throws the timeout error and the error reaches the caller of
\* executeTask / continueConversation: the task is over, with no tool call and
\* no request of its own in progress, and the step in which the timer fires
\* leaves the history, the step counter and the last AgentResponse as they were.
C13_TimeoutAbortsTask ==
  /\ [](race.by = "timer" =>
          /\ pc = "idle"
          /\ outcome = Thrown(TimeoutMessage)
          /\ toolCall = NoToolCall
          /\ request = <<>>)
  /\ [][ (pc \in {"model_wait", "reformat_wait"} /\ race'.by = "timer")
           => /\ outcome' = Thrown(TimeoutMessage)
              /\ pc' = "idle"
              /\ UNCHANGED <<conversationHistory, steps, agentResponse>> ]_vars
  /\ [][ (race.by = "timer" /\ race'.by = "timer")
           => UNCHANGED <<pc, steps, conversationHistory, toolCall, request>> ]_vars

C13_Witness ==
  /\ race.by = "timer"
  /\ entry = "executeTask"
  /\ steps > 0
  /\ agentResponse.type = "function_call"
  /\ pc = "idle"
  /\ outcome = Thrown(TimeoutMessage)

\* Everything but the record of the losers.
taskVars ==
  <<isConnected, connected, maxSteps, responseSchema, currentQuery,
    conversationHistory, pc, entry, agentResponse, steps, callIndex, results,
    toolCall, toolResults, request, answerText, outcome, backend, iterations,
    race, structuredResponse, other>>

\* C14: the participant that completes first alone decides a race: when the
\* request of a race settled by its timer replies, or the timer of a race
\* settled by its reply fires, nothing changes: not the history, not the
\* AgentResponse, not the outcome nor the position of the task that is running
\* then.
C14_LoserChangesNothing ==
  [][ (\E k \in LoserKinds : losers[k] = "pending" /\ losers'[k] = "ignored")
        => UNCHANGED taskVars ]_vars

C14_Witness ==
  /\ losers["request"] = "ignored"
  /\ losers["timer"] = "ignored"
  /\ entry = "continueConversation"
  /\ pc = "tool_wait"


\* The function-calling request the task awaited last got a reply that holds no
\* invocation request: no candidate, or a candidate without functionCall parts.
ReplyWithoutRequests(r) ==
  /\ r.by = "reply"
  /\ FunctionCallsOf(r.reply.parts) = <<>>

\* C15: a reply of the language backend that holds no invocation request makes
\* continueAgent throw; the error ends the task at once and reaches the caller:
\* the request is not issued again, no tool is executed, the step counter stays.
C15_NoRequestsIsAnError ==
  /\ []((ReplyWithoutRequests(race) /\ structuredResponse = NoBody) =>
          /\ pc = "idle"
          /\ outcome = Thrown(IF race.reply.candidate THEN UnexpectedResponseMessage
                              ELSE NoResponseMessage)
          /\ request = <<>>
          /\ toolCall = NoToolCall)
  /\ [][ (pc = "model_wait" /\ ReplyWithoutRequests(race'))
           => /\ pc' = "idle"
              /\ outcome'.kind = "throw"
              /\ UNCHANGED <<steps, agentResponse>> ]_vars

C15_Witness ==
  /\ race = WonByReply(Reply(<<TextPart("I cannot")>>))
  /\ Last(conversationHistory) = ModelTurn(<<TextPart("I cannot")>>)
  /\ steps > 0
  /\ pc = "idle"
  /\ outcome = Thrown(UnexpectedResponseMessage)


\* C16 (as claimed): a task submitted while an earlier task of the Orchestrator
\* has not completed is rejected and does not start: no two tasks of one
\* Orchestrator are ever in progress together.
C16_SecondTaskRejected == pc = "idle" \/ other.pc = "idle"

\* A task is waiting for a backend: the language backend, the automation backend.
AwaitsModel(p) == p \in {"model_wait", "reformat_wait"}
AwaitsBackend(p) == AwaitsModel(p) \/ p = "tool_wait"

\* C17 (as claimed): at every moment at most one backend request of the
\* Orchestrator is outstanding, and no two requests to the language backend
\* overlap, whatever the caller submits and whenever replies and timeouts come;
\* a request abandoned by its timer is still a request in flight.
C17_OneOutstandingRequest ==
  /\ ~(AwaitsBackend(pc) /\ AwaitsBackend(other.pc))
  /\ ~(AwaitsModel(pc) /\ AwaitsModel(other.pc))
  /\ ~(AwaitsModel(pc) /\ \E k \in {"request", "reformat"} : losers[k] = "pending")


\* C18: within one step the requested tools run one after another in the order
\* of the requests: the one call in flight is the call of request callIndex, and
\* every request before it has returned, failed or been refused; when a call
\* returns or fails, the call started next is that of the next request that can
\* be called at all, and the step ends only when no such request is left.
C18_ToolsOneAfterAnother ==
  /\ [](pc = "tool_wait" =>
          LET calls == agentResponse.functionCalls IN
          /\ callIndex \in 1..Len(calls)
          /\ Str(toolCall.name) = calls[callIndex].name
          /\ toolCall.args = calls[callIndex].args
          /\ Len(backend) = callIndex - 1
          /\ Len(results) = callIndex - 1)
  /\ [][ (pc = "tool_wait" /\ pc' = "tool_wait")
           => /\ callIndex' > callIndex
              /\ \A j \in (callIndex + 1)..(callIndex' - 1) :
                   ~IsString(agentResponse.functionCalls[j].name)
              /\ SubSeq(backend', 1, callIndex) = Append(backend, backend'[callIndex])
              /\ backend'[callIndex].kind \in {"resolved", "rejected"} ]_vars
  /\ [][ (pc = "tool_wait" /\ pc' # "tool_wait")
           => /\ pc' = "delay"
              /\ Len(toolResults') = Len(agentResponse.functionCalls)
              /\ \A j \in (callIndex + 1)..Len(agentResponse.functionCalls) :
                   ~IsString(agentResponse.functionCalls[j].name) ]_vars

C18_Witness ==
  /\ pc = "tool_wait"
  /\ callIndex = 3
  /\ backend[1].kind = "notCalled"
  /\ backend[2].kind = "rejected"
  /\ toolCall.name = "provide_answer"


\* The url of the request in flight, as the model issued it.
RequestedUrl == FunctionCallsOf(race.reply.parts)[callIndex].args.url

\* The search URL the rewrite must produce for each query.
SearchUrl(query) ==
  CASE query = <<"best", " ", "pizza">> -> "https://www.google.com/search?q=best+pizza"
    [] query = <<"best", " ", "\t", "pizza">> -> "https://www.google.com/search?q=best+pizza"
    [] query = <<" ", "cheap", "\n", " ", "flights", " ">> ->
         "https://www.google.com/search?q=+cheap+flights+"

\* C19: for every navigate_page request whose url is one of the six bare Google
\* homepage forms, the url handed to the automation backend is
\* https://www.google.com/search?q= followed by the current query with every run
\* of whitespace replaced by one '+'; every url that contains '?' is handed over
\* as the model issued it.
C19_BareGoogleUrlBecomesSearch ==
  (pc = "tool_wait" /\ toolCall.name = "navigate_page") =>
    /\ RequestedUrl.v \in
         {"https://www.google.com", "https://google.com", "http://www.google.com",
          "http://google.com", "www.google.com", "google.com"}
         => toolCall.args.url = Str(SearchUrl(currentQuery))
    /\ RequestedUrl.v \in
         {"https://www.google.com/search?q=cats", "https://www.google.com?hl=en",
          "https://example.com/?q=a b"}
         => toolCall.args.url = RequestedUrl
    /\ toolCall.args.url \in {RequestedUrl, Str(SearchUrl(currentQuery))}

C19_Witness ==
  /\ pc = "tool_wait"
  /\ toolCall.name = "navigate_page"
  /\ currentQuery = <<"best", " ", "\t", "pizza">>
  /\ RequestedUrl = Str("http://www.google.com")
  /\ toolCall.args.url = Str("https://www.google.com/search?q=best+pizza")


\* C20: at the first language-backend request of every executeTask the history,
\* and the contents of the request, are exactly one turn: the user turn that
\* joins the system prompt and the query of that task; executeTask leaves no
\* turn of an earlier task in the history.
C20_FirstRequestHasOneTurn ==
  /\ []((entry = "executeTask" /\ steps = 0 /\ pc \in {"delay", "model_wait"}) =>
          /\ conversationHistory =
               <<UserTurn(SystemPrompt \o "\n\nUser: \"" \o QueryText(currentQuery) \o "\"")>>
          /\ pc = "model_wait" => request = conversationHistory)
  /\ [][ (pc = "idle" /\ pc' = "delay" /\ entry' = "executeTask")
           => /\ Len(conversationHistory') = 1
              /\ conversationHistory'[1].role = "user" ]_vars

C20_Witness ==
  /\ entry = "executeTask"
  /\ steps = 0
  /\ pc = "model_wait"
  /\ currentQuery = <<"find", " ", "X">>
  /\ request = <<UserTurn(SystemPrompt \o "\n\nUser: \"find X\"")>>
  /\ losers["timer"] # "none"      \* an earlier task got a reply from the model


\* The first n turns of a history.
Turns(history, n) == SubSeq(history, 1, n)


\* C21: the history is append-only during a run and across continueConversation
\* calls: no step of a task started by continueConversation removes or rewrites
\* a turn that is in the history, and the call itself leaves the history of the
\* previous task followed by exactly one user turn holding the new message.
C21_HistoryAppendOnly ==
  /\ [][ entry' = "continueConversation" =>
           /\ Len(conversationHistory') >= Len(conversationHistory)
           /\ Turns(conversationHistory', Len(conversationHistory)) = conversationHistory ]_vars
  /\ [][ (pc = "idle" /\ pc' = "delay" /\ entry' = "continueConversation") =>
           conversationHistory' = Append(conversationHistory, MessageTurn(currentQuery')) ]_vars


\* C22: every reply the language backend returns to a function-calling request
\* is appended to the history as one model turn, right after the turns the
\* request was sent with (the last of which is a user turn), whatever the
\* classification of the reply yields.
C22_EveryReplyIsAppended ==
  [][ (pc = "model_wait" /\ race.by = "pending" /\ race'.by = "reply") =>
        /\ Last(conversationHistory).role = "user"
        /\ Len(conversationHistory') > Len(conversationHistory)
        /\ Turns(conversationHistory', Len(conversationHistory)) = conversationHistory
        /\ conversationHistory'[Len(conversationHistory) + 1].role = "model"
        /\ Len(conversationHistory'[Len(conversationHistory) + 1].parts)
             = Len(race'.reply.parts) ]_vars


\* C23: after cleanup the automation-backend connection is closed and the
\* history is empty, and nothing but connect reopens the connection: a task
\* submitted to an orchestrator that is not connected fails with the
\* not-connected error, and the MCP client stays closed until connect is called.
C23_CleanupCloses ==
  /\ [][ (isConnected /\ ~isConnected') =>
           (~connected' /\ conversationHistory' = <<>>) ]_vars
  /\ [][ (~isConnected /\ pc = "idle" /\ entry' \in {"executeTask", "continueConversation"}) =>
           (pc' = "idle" /\ outcome' = Thrown(NotConnectedMessage)) ]_vars
  /\ [][ (~connected /\ connected') => (pc = "idle" /\ entry' = "none") ]_vars


\* C26: reset is idempotent: for every history a session can hold, two resets
\* in a row leave what one reset leaves, which is the empty history with every
\* other field of the session as it was.
C26_ResetIdempotent ==
  /\ reset(reset(Session)) = reset(Session)
  /\ reset(Session).conversationHistory = <<>>
  /\ reset(Session).responseSchema = Session.responseSchema

C26_Witness ==
  /\ pc = "idle"
  /\ isConnected
  /\ Len(conversationHistory) >= 3
  /\ conversationHistory[2].role = "model"
  /\ responseSchema


\* A reply that holds a provide_answer call with a non-empty answer together
\* with other invocation requests.
IsMixed(parts) ==
  LET calls == FunctionCallsOf(parts)
  IN /\ Len(calls) > 1
     /\ \E i \in 1..Len(calls) :
          calls[i].name = Str("provide_answer") /\ Truthy(calls[i].args.answer)

\* A mixed reply arrives at the task.
MixedReplyArrives ==
  /\ pc = "model_wait"
  /\ race.by = "pending"
  /\ race'.by = "reply"
  /\ IsMixed(race'.reply.parts)

\* The task has ended, and the last reply to a function-calling request of the
\* task was a mixed reply.
EndedOnMixedReply ==
  /\ pc = "idle"
  /\ outcome.kind \in {"return", "throw"}
  /\ Len(conversationHistory) > 0
  /\ Last(conversationHistory).role = "model"
  /\ IsMixed(Last(conversationHistory).parts)

\* C30: when one model reply holds a provide_answer call with a non-empty
\* answer together with other invocation requests, none of the requests of
\* that reply is executed against the automation backend, and the task ends
\* with an answer response (or, with a response schema, with the error of a
\* reformat sub-request that timed out or replied with a body that is not
\* JSON).
C30_MixedReplyYieldsAnswer ==
  /\ [][ MixedReplyArrives =>
           (/\ pc' \in {"idle", "reformat_delay"}
            /\ iterations' = iterations
            /\ steps' = steps
            /\ toolCall' = NoToolCall) ]_vars
  /\ [](EndedOnMixedReply =>
          \/ agentResponse.type = "answer" /\ outcome.kind = "return"
          \/ /\ responseSchema
             /\ agentResponse.type # "answer"
             /\ outcome \in {Thrown(TimeoutMessage), Thrown(SyntaxErrorMessage)})


\* A task that made at least one request has ended.
TaskEnded == pc = "idle" /\ outcome.kind \in {"return", "throw"} /\ race.by # "none"

\* C25: after a task has ended in any way the orchestrator is idle, its
\* connection is the one the task ran on, and the next call is accepted; in the
\* interactive session the handler reports the error of a task that threw and
\* shows the prompt again, and a following continueConversation starts a task
\* on the same connection, on the history the ended task left.
C25_IdleAfterEveryEnd ==
  /\ [](TaskEnded =>
          /\ isConnected
          /\ LineHandled(outcome).prompt
          /\ outcome.kind = "throw" =>
               LineHandled(outcome).reported = "\nError: " \o outcome.value.v
          /\ outcome.kind = "return" => LineHandled(outcome).displayed = outcome.value)
  /\ [][ (pc # "idle" /\ pc' = "idle") =>
           (/\ outcome'.kind \in {"return", "throw"}
            /\ UNCHANGED <<isConnected, connected>>) ]_vars
  /\ [][ (TaskEnded /\ entry' = "continueConversation" /\ outcome' # outcome) =>
           (/\ pc' = "delay"
            /\ outcome' = Running
            /\ conversationHistory' = Append(conversationHistory, MessageTurn(currentQuery'))
            /\ UNCHANGED <<isConnected, connected>>) ]_vars

C25_Witness ==
  /\ entry = "continueConversation"
  /\ pc = "model_wait"
  /\ isConnected
  /\ connected
  /\ losers["request"] = "pending"      \* the task before this one timed out
  /\ Len(conversationHistory) = 2
  /\ conversationHistory[1] = StartTurn(<<"find", " ", "X">>)
  /\ conversationHistory[2] = MessageTurn(currentQuery)


\* C24: every task started by executeTask or continueConversation eventually
\* ends, with a returned result (an answer or the fixed string of the
\* exhausted ceiling) or with a thrown error, when every await of the task
\* completes; the loop does not run forever.
C24_EveryTaskEnds ==
  (pc # "idle") ~> (pc = "idle" /\ outcome.kind \in {"return", "throw"})

C24_Witness ==
  /\ pc = "idle"
  /\ entry = "continueConversation"
  /\ maxSteps = LiveCeiling
  /\ steps = maxSteps
  /\ agentResponse.type = "function_call"
  /\ outcome = Returned(Str(MaxStepsMessage))


\* The cleanup has reset the history while the request of the task is in flight.
ResetInFlight ==
  /\ pc \in {"model_wait", "reformat_wait"}
  /\ race.by = "pending"
  /\ other.pc = "close_wait"
  /\ other'.pc = "idle"

\* C27: a reset (reached through cleanup) that runs while a language-backend
\* request is in flight has no effect on that request: the contents the request
\* was sent with stay what they were, and what continueAgent derives from the
\* reply (the AgentResponse, and with it the continuation or the outcome of the
\* task) is what it derives when the history still is the one the request was
\* sent with.
C27_ResetLeavesRequestInFlight ==
  /\ [][ ResetInFlight =>
           (/\ request' = request
            /\ UNCHANGED <<pc, race, agentResponse, outcome, answerText>>
            /\ conversationHistory' = <<>>) ]_vars
  /\ [][ (pc = "model_wait" /\ race.by = "pending" /\ race'.by = "reply") =>
           LET asIf == OnReply([Task EXCEPT !.history = request], race'.reply)
           IN /\ agentResponse' = asIf.agentResponse
              /\ outcome' = asIf.outcome
              /\ answerText' = asIf.answerText
              /\ (pc' = "idle") = (asIf.pc = "idle")
              /\ (pc' = "reformat_delay") = (asIf.pc = "reformat_delay") ]_vars

C27_Witness ==
  /\ pc = "idle"
  /\ entry = "executeTask"
  /\ ~isConnected
  /\ other.pc = "idle"
  /\ conversationHistory = <<ModelTurn(<<ProvideAnswer(Str("Price is $10"))>>)>>
  /\ agentResponse = AnswerResponse(Str("Price is $10"))
  /\ outcome = Returned(Str("Price is $10"))


\* The first value of a sequence that is defined, Undefined when there is none.
RECURSIVE FirstDefined(_)
FirstDefined(values) ==
  IF Len(values) = 0 THEN Undefined
  ELSE IF Head(values) # Undefined THEN Head(values)
  ELSE FirstDefined(Tail(values))

\* The fields of a configuration source; a source that is absent defines none.
FieldsOf(config) == IF config = Null THEN NoFields ELSE config.fields

\* The preset of the given name a configuration file holds, Undefined when it
\* holds none.
PresetIn(config, name) ==
  IF config = Null THEN Undefined
  ELSE IF config.presets = Undefined THEN Undefined
  ELSE IF name \notin PresetNames THEN Undefined
  ELSE config.presets[name]

\* The preset selected on the command line: the project's preset of that name,
\* else the default configuration's.
SelectedPreset ==
  IF ~Truthy(cli.presetName) THEN Undefined
  ELSE FirstDefined(<<PresetIn(cli.projectConfig, cli.presetName.v),
                      PresetIn(cli.defaultConfig, cli.presetName.v)>>)

\* C28: for every configuration field the resolved value is the value of the
\* highest-priority source that defines the field, in the order CLI flags >
\* selected preset > project configuration > default configuration; a source
\* that leaves the field undefined overrides nothing. (The resolution fails
\* exactly when a preset is selected that neither file holds.)
C28_HighestPrioritySourceWins ==
  cli.phase = "resolved" =>
    /\ cli.resolved.ok = (Truthy(cli.presetName) => SelectedPreset # Undefined)
    /\ cli.resolved.ok =>
         \A f \in ConfigFields :
           cli.resolved.fields[f] =
             FirstDefined(<<cli.cliConfig.fields[f],
                            IF SelectedPreset = Undefined THEN Undefined
                            ELSE SelectedPreset[f],
                            FieldsOf(cli.projectConfig)[f],
                            cli.defaultConfig.fields[f]>>)

C28_Witness ==
  /\ cli.phase = "resolved"
  /\ cli.resolved.ok
  /\ cli.presetName = Str("quick")
  /\ cli.cliConfig.fields = Tagged("cli", {"interactive", "model", "schema"})
  /\ cli.projectConfig # Null
  /\ cli.projectConfig.fields = Tagged("project", {"maxSteps"})
  /\ cli.defaultConfig.fields = Tagged("default", ConfigFields)
  /\ cli.resolved.fields["model"] = Str("cli")
  /\ cli.resolved.fields["maxSteps"] = Str("project preset")
  /\ cli.resolved.fields["temperature"] = Str("default")
  /\ cli.resolved.fields["schema"] = Str("cli")


\* A help flag is among the arguments of the command line.
HelpRequested == \E i \in 1..Len(cli.argv) : cli.argv[i] \in {"--help", "-h"}

\* C29: --help and -h on the command line make the process print the usage
\* text and exit with status 0 before any configuration is resolved, any
\* connection is opened or any task is run; neither flag becomes part of the
\* task text.
C29_HelpShowsUsageAndExits ==
  (cli.phase # "none" /\ HelpRequested) =>
    /\ cli.phase \in {"start", "exited"}
    /\ cli.phase = "exited" => (cli.printed = "usage" /\ cli.exitCode = 0)
    /\ cli.resolved = NoResolution
    /\ cli.initialTask = Undefined
    /\ ~isConnected /\ ~connected
    /\ pc = "idle" /\ entry = "none"

(***************************************************************************)
(* Raw tool results.                                                       *)
(***************************************************************************)
\* The results of the step so far, each next to what the backend did for it.
ResolvedResults ==
  { i \in 1..Len(backend) : i <= Len(results) /\ backend[i].kind = "resolved" }

\* C31: a tool failure that the automation backend reports in the result it
\* returns (isError) becomes a result string with the prefix 'Error: ', as the
\* message of a thrown failure does.
C31_ReportedFailureIsPrefixed ==
  \A i \in ResolvedResults :
    backend[i].raw.isError =>
      results[i].result = "Error: " \o formatToolResult(backend[i].raw)

\* The text the model is to see for one content item: the text of the item, the
\* placeholder for an image, and the data of no item.
ShownText(item) ==
  IF item.type = "image" THEN "[Image content not shown to agent]" ELSE item.text

\* C32: the result string of a resolved call is the raw result itself when it
\* is a string; for a content list the texts of the items joined by line breaks,
\* an image item shown as the placeholder and the data of no item shown; the
\* JSON text of any other object; String(result) of anything else.
C32_FormatAsClaimed ==
  \A i \in ResolvedResults :
    LET raw == backend[i].raw IN
    results[i].result =
      IF raw.t = "string" THEN raw.v
      ELSE IF raw.t = "object"
           THEN IF raw.hasContent
                THEN Join([k \in 1..Len(raw.content) |-> ShownText(raw.content[k])], "\n")
                ELSE raw.v
           ELSE JsString(raw)

\* A request for navigate_page whose url is a bare search-engine homepage.
IsBareHomepageRequest(call) ==
  /\ call.name = Str("navigate_page")
  /\ Truthy(call.args.url)
  /\ ToLowerCase(JsString(call.args.url)) \in BareGoogleUrls

\* C33: the automation backend is called with the name and the arguments the
\* model requested, unless the request is a navigate_page request for a bare
\* search-engine homepage, and then only its url argument differs; the other
\* requests of the reply stay as the model made them.
C33_OnlyTheUrlIsRewritten ==
  (pc = "tool_wait" /\ race.by = "reply") =>
    LET requested == FunctionCallsOf(race.reply.parts)
        calls == agentResponse.functionCalls
    IN /\ Len(calls) = Len(requested)
       /\ toolCall.name = JsString(requested[callIndex].name)
       /\ toolCall.args = calls[callIndex].args
       /\ \A i \in 1..Len(requested) :
            /\ calls[i].name = requested[i].name
            /\ IF i <= callIndex /\ IsBareHomepageRequest(requested[i])
               THEN calls[i].args = [requested[i].args EXCEPT !.url = calls[i].args.url]
               ELSE calls[i].args = requested[i].args

C33_Witness ==
  /\ pc = "tool_wait"
  /\ toolCall.name = "new_page"
  /\ toolCall.args.url = Str("google.com")
  /\ currentQuery # <<>>

(***************************************************************************)
(* Calls on an orchestrator that is not connected.                         *)
(***************************************************************************)
\* A call of executeTask or of continueConversation.
TaskCalled ==
  \/ \E userQuery \in Queries : ExecuteTask(userQuery)
  \/ \E userMessage \in Messages : ContinueConversation(userMessage)

\* C34: executeTask and continueConversation called while isConnected is false
\* end at once with the not-connected error; currentQuery and the conversation
\* history stay as they are, and no request goes to the language backend or to
\* the automation backend.
C34_NotConnectedChangesNothing ==
  [][ (~isConnected /\ TaskCalled) =>
        (/\ pc' = "idle"
         /\ outcome' = Thrown(NotConnectedMessage)
         /\ currentQuery' = currentQuery
         /\ conversationHistory' = conversationHistory
         /\ request' = request
         /\ race' = race
         /\ toolCall' = toolCall
         /\ backend' = backend) ]_vars

C34_Witness ==
  /\ ~isConnected
  /\ connected
  /\ currentQuery # <<>>
  /\ conversationHistory = <<>>
  /\ entry = "continueConversation"
  /\ outcome = Thrown(NotConnectedMessage)

(***************************************************************************)
(* The ceiling of the Orchestrator that main constructs.                   *)
(***************************************************************************)
\* C35: the ceiling a task runs with is an integer greater than 0, whatever
\* configuration main has constructed the Orchestrator from.
C35_CeilingIsPositive == pc # "idle" => (maxSteps \in Nat /\ maxSteps > 0)

(***************************************************************************)
(* The shape of the conversation history.                                  *)
(***************************************************************************)
\* C36: the conversation history begins with a user turn and no two consecutive
\* turns of it have the same role, after every call of executeTask and of
\* continueConversation, also after one that ended with an error.
C36_RolesAlternate ==
  pc = "idle" =>
    /\ Len(conversationHistory) > 0 => conversationHistory[1].role = "user"
    /\ \A i \in 1..(Len(conversationHistory) - 1) :
         conversationHistory[i].role # conversationHistory[i + 1].role

\* The opening turns startAgent can have built: the system directive followed
\* by one of the queries of the model.
DirectiveTurns ==
  { StartTurn(userQuery) :
      userQuery \in Queries \cup Messages \cup { JoinTokens(argv) : argv \in Argvs } }

\* C37: the history sent with a function-calling request begins with the user
\* turn that holds the system directive, however the session began.
C37_RequestBeginsWithDirective ==
  pc = "model_wait" => (Len(request) > 0 /\ request[1] \in DirectiveTurns)

(***************************************************************************)
(* The query of a running task.                                            *)
(***************************************************************************)
\* C38: while the task started for a line is running, currentQuery keeps the
\* value that task gave it, whatever lines the session delivers meanwhile.
C38_QueryStableWhileRunning ==
  [][ (pc # "idle" /\ pc' # "idle") => currentQuery' = currentQuery ]_vars

(***************************************************************************)
(* The two connection flags.                                               *)
(***************************************************************************)
\* C39: between the calls of connect and cleanup the Orchestrator's isConnected
\* and the MCPClient's connected are equal, also when listing the tools or
\* closing the client has failed.
C39_FlagsAgree == isConnected = connected

(***************************************************************************)
(* The end of the process.                                                 *)
(***************************************************************************)
\* C40: when the process exits after connect has succeeded, cleanup has run to
\* its end before: the Orchestrator is no longer connected (isConnected is set
\* by a successful connect and cleared by the last statement of cleanup only).
C40_CleanupBeforeExit == cli.exited => ~isConnected

====
